---- MODULE Spec2Model ----
(***************************************************************************)
(* Verification model of the GTD API service: the Evernote migration       *)
(* controller (lib/evernote-processor.js), the embedding queue processor   *)
(* and the search of lib/gtd-search-service.js, the store operations they  *)
(* use (lib/gtd-database-client.js) and the tables and functions of        *)
(* migrations/005_gtd_productivity_schema.sql.                             *)
(*                                                                         *)
(* Strings the code inspects character by character (tags) are sequences   *)
(* of one-character strings.  Timestamps are integers: the instants a note *)
(* carries are 1..2 (a date text no parser accepts is Unparseable), the     *)
(* wall clock `now` starts after them.  The clock is                        *)
(* read in milliseconds and the model lets it advance when a trigger        *)
(* arrives: the stamps taken during a run are those of the latest trigger.  *)
(***************************************************************************)
EXTENDS Integers, Sequences, FiniteSets, TLC

\* ------------------------------------------------------------------ bounds
MaxNotes == 3      \* notes over all exports of one behaviour
MaxFaults == 1     \* calls of the store or of the generator that raise
batchSize == 2     \* notes per batch: 10 in processENEXContent, scaled down
MaxQueue == 3      \* rows of embedding_queue when the service starts
MaxBatch == 2      \* the batchSize a processEmbeddingQueue call is given
QueueDocs == 2     \* documents the queue entries refer to
MaxLimit == 2      \* the limit a search is given
MaxSearches == 1   \* searches recorded in search_history
MaxTags == 2       \* tags of a note
MaxAttempts == 3   \* the attempts column counts up to this

Procs == {"p1", "p2"}          \* EvernoteProcessor instances (one per trigger)
FirstInstant == 3              \* the wall clock before the first trigger
NULL == 0                      \* SQL NULL / undefined, of a number or a time
NoText == ""                   \* undefined, of a string

\* --------------------------------------------------------------- characters
RECURSIVE IsPrefix(_, _)
IsPrefix(pre, s) ==
  IF pre = <<>> THEN TRUE
  ELSE IF s = <<>> THEN FALSE
  ELSE Head(pre) = Head(s) /\ IsPrefix(Tail(pre), Tail(s))

RECURSIVE Includes(_, _)
Includes(s, sub) ==
  IF IsPrefix(sub, s) THEN TRUE
  ELSE IF s = <<>> THEN FALSE
  ELSE Includes(Tail(s), sub)

LowerChar(c) ==
  CASE c = "A" -> "a" [] c = "F" -> "f" [] c = "H" -> "h"
    [] c = "P" -> "p" [] c = "W" -> "w"
    [] OTHER -> c

toLowerCase(s) == [k \in 1..Len(s) |-> LowerChar(s[k])]

IsSpace(c) == c = " "

RECURSIVE TrimLeft(_)
TrimLeft(s) == IF s # <<>> /\ IsSpace(Head(s)) THEN TrimLeft(Tail(s)) ELSE s

RECURSIVE TrimRight(_)
TrimRight(s) ==
  IF s # <<>> /\ IsSpace(s[Len(s)]) THEN TrimRight(SubSeq(s, 1, Len(s) - 1)) ELSE s

trim(s) == TrimRight(TrimLeft(s))

RECURSIVE DropWhile(_, _)
DropWhile(s, set) ==
  IF s # <<>> /\ Head(s) \in set THEN DropWhile(Tail(s), set) ELSE s

Drop(s, n) == SubSeq(s, n + 1, Len(s))

\* ---------------------------------------------------------------- the words
W_at_computer == <<"@","c","o","m","p","u","t","e","r">>
W_home        == <<"H","o","m","e">>
W_project_ap  == <<"p","r","o","j","e","c","t","-","a","p">>
W_p_zeus      == <<"p",":","z","e","u","s">>
W_finance     == <<"f","i","n","a","n","c","e">>
W_area_ops    == <<"A","r","e","a",":"," ","o","p","s">>
W_misc        == <<"m","i","s","c">>
W_work_project == <<"W","o","r","k"," ","P","r","o","j","e","c","t">>

W_project == <<"p","r","o","j","e","c","t">>
W_area    == <<"a","r","e","a">>
ContextWords ==
  { <<"c","o","m","p","u","t","e","r">>, <<"p","h","o","n","e">>,
    <<"o","f","f","i","c","e">>, <<"h","o","m","e">>,
    <<"e","r","r","a","n","d","s">>, <<"w","a","i","t","i","n","g">>,
    <<"s","o","m","e","d","a","y">> }
AreaWords ==
  { <<"p","e","r","s","o","n","a","l">>, <<"w","o","r","k">>,
    <<"h","e","a","l","t","h">>, <<"f","i","n","a","n","c","e">>,
    <<"f","a","m","i","l","y">>, <<"l","e","a","r","n","i","n","g">> }
W_inbox == <<"@","i","n","b","o","x">>

\* ------------------------------------------------------- the note normalizer
\* tag.startsWith('@') || tag.match(/^(computer|phone|...)/i)
IsContextTag(tag) ==
  \/ IsPrefix(<<"@">>, tag)
  \/ \E w \in ContextWords : IsPrefix(w, toLowerCase(tag))

\* variant: the default context is pushed whatever the tags gave
extractGTDContexts_AlwaysInbox(tags) ==
  LET kept == SelectSeq(tags, IsContextTag)
      contexts == [k \in 1..Len(kept) |->
                     IF IsPrefix(<<"@">>, kept[k]) THEN kept[k]
                     ELSE <<"@">> \o toLowerCase(kept[k])]
  IN Append(contexts, W_inbox)

extractGTDContexts(tags) ==
  LET kept == SelectSeq(tags, IsContextTag)
      contexts == [k \in 1..Len(kept) |->
                     IF IsPrefix(<<"@">>, kept[k]) THEN kept[k]
                     ELSE <<"@">> \o toLowerCase(kept[k])]
  IN IF Len(contexts) = 0 THEN <<W_inbox>> ELSE contexts

\* /^[A-Z][A-Za-z\s]+Project$/
IsUpper(c) == c \in {"A", "F", "H", "P", "W"}
IsLetterOrSpace(c) == c \notin {"@", "-", ":"}
MatchesWordProject(tag) ==
  LET suffix == <<"P","r","o","j","e","c","t">>
      n == Len(tag)
  IN /\ n >= Len(suffix) + 2
     /\ IsUpper(tag[1])
     /\ SubSeq(tag, n - Len(suffix) + 1, n) = suffix
     /\ \A k \in 2..n : IsLetterOrSpace(tag[k])

IsProjectTag(tag) ==
  \/ Includes(toLowerCase(tag), W_project)
  \/ IsPrefix(<<"p", ":">>, tag)
  \/ MatchesWordProject(tag)

IsAreaTag(tag) ==
  \/ Includes(toLowerCase(tag), W_area)
  \/ IsPrefix(<<"a", ":">>, tag)
  \/ toLowerCase(tag) \in AreaWords

\* An optional string (null or a string) is a sequence of no or one string.
None == <<>>
Some(x) == <<x>>

\* tags.find(pred) is the first of the tags that satisfy pred, None when
\* there is none
First(kept) == IF kept = <<>> THEN None ELSE Some(Head(kept))

\* s.replace(/^(label[:\s-]*|x:)/i, ''): the label with its separators, or
\* else the one-letter prefix, is removed from the front
StripLabel(s, label, short) ==
  IF IsPrefix(label, toLowerCase(s))
    THEN DropWhile(Drop(s, Len(label)), {":", " ", "-"})
  ELSE IF IsPrefix(short, toLowerCase(s)) THEN Drop(s, Len(short))
  ELSE s

extractGTDProject(tags) ==
  LET projectTag == First(SelectSeq(tags, IsProjectTag))
  IN IF projectTag # None
       THEN Some(trim(StripLabel(projectTag[1], W_project, <<"p", ":">>)))
     ELSE None

extractGTDArea(tags) ==
  LET areaTag == First(SelectSeq(tags, IsAreaTag))
  IN IF areaTag # None
       THEN Some(trim(StripLabel(areaTag[1], W_area, <<"a", ":">>)))
     ELSE None

\* s.content of a note, as xml2js delivers it
ContentAbsent  == [shape |-> "absent",  text |-> ""]
ContentText(t) == [shape |-> "string",  text |-> t]
ContentCData(t) == [shape |-> "object", text |-> t]
ContentElement == [shape |-> "element", text |-> ""]   \* an object without text

\* extractContent raises when the element is an object that carries no text
ExtractContentRaises(c) == c.shape = "element"
extractContent(c) == IF c.shape = "absent" THEN "" ELSE c.text

\* A date of a note is absent (NULL), a text that names an instant (the
\* instant stands for it) or a text no date parser accepts.
Unparseable == -1
\* new Date(text) of such a text: a Date whose time value is NaN
InvalidDate == -2

\* parseDate: no value gives the current time, a text in the compact format
\* or one the general parser accepts its instant, any other text an invalid
\* Date; it never raises
parseDate(dateStr, t) ==
  IF dateStr = NULL THEN t
  ELSE IF dateStr = Unparseable THEN InvalidDate
  ELSE dateStr

\* crypto md5 of `${title}_${created.toISOString()}`
generateSourceId(title, created) == <<"md5", title, created>>
\* created.toISOString() raises a RangeError on an invalid Date
GenerateSourceIdRaises(created) == created = InvalidDate

SourceIdOf(note, created) ==
  IF note.guid # NULL THEN <<"guid", note.guid>>
  ELSE IF note.sourceGuid # NULL THEN <<"guid", note.sourceGuid>>
  ELSE generateSourceId(IF note.title = NoText THEN "Untitled Note" ELSE note.title,
                        created)

\* the synchronous first part of processNote, up to the upsert (lines 84-112)
Normalize(note, t) ==
  LET created == parseDate(note.created, t)
      tags == note.tags
  IN [ source_id    |-> SourceIdOf(note, created),
       title        |-> IF note.title = NoText THEN "Untitled Note" ELSE note.title,
       content      |-> extractContent(note.content),
       gtd_contexts |-> extractGTDContexts(tags),
       gtd_project  |-> extractGTDProject(tags),
       gtd_area     |-> extractGTDArea(tags),
       created_at   |-> created,
       updated_at   |-> parseDate(note.updated, t),
       metadata     |-> tags ]

\* the note has no guid and no source-guid: its identity is generated
NeedsGeneratedId(note) == note.guid = NULL /\ note.sourceGuid = NULL

NormalizeError == "html.replace is not a function"
InvalidTimeError == "Invalid time value"

\* the first part of processNote raises in extractContent (line 85) or in
\* generateSourceId (line 98); an invalid created does not depend on the clock
NormalizeRaises(note) ==
  \/ ExtractContentRaises(note.content)
  \/ /\ NeedsGeneratedId(note)
     /\ GenerateSourceIdRaises(parseDate(note.created, FirstInstant))

NormalizeErrorOf(note) ==
  IF ExtractContentRaises(note.content) THEN NormalizeError ELSE InvalidTimeError

\* ------------------------------------------------------------- the inputs
NoteA == [ guid |-> 1, sourceGuid |-> NULL, title |-> "t1",
           content |-> ContentText("c1"), created |-> 1, updated |-> 1,
           tags |-> <<W_at_computer, W_project_ap, W_finance>>, resources |-> 0 ]
NoteB == [ guid |-> 1, sourceGuid |-> NULL, title |-> "t2",
           content |-> ContentCData("c2"), created |-> 2, updated |-> 2,
           tags |-> <<W_home, W_p_zeus, W_area_ops>>, resources |-> 1 ]
NoteM == [ guid |-> 2, sourceGuid |-> NULL, title |-> "t3",
           content |-> ContentElement, created |-> 1, updated |-> 1,
           tags |-> <<W_misc>>, resources |-> 0 ]
Notes == {NoteA, NoteB, NoteM}

RECURSIVE SeqsUpTo(_, _)
SeqsUpTo(S, n) ==
  IF n = 0 THEN {<<>>}
  ELSE LET shorter == SeqsUpTo(S, n - 1)
       IN shorter \cup {Append(s, x) : s \in {t \in shorter : Len(t) = n - 1}, x \in S}

\* what parseXML makes of the uploaded content
RootKinds == {"ok", "unparseable", "noroot"}

\* ------------------------------------------------------------------ state
VARIABLES
  now,                 \* wall clock
  documents,           \* table documents, row k has id k
  attachments,         \* table attachments
  embedding_queue,     \* table embedding_queue
  migration_progress,  \* table migration_progress, by migration_id
  pc,                  \* where each processor is
  migrationId,         \* this.migrationId
  stats,               \* this.stats
  notes,               \* the notes of the export being processed
  batchStart,          \* i of the batch loop (1-based)
  notePc,              \* per note: where its processNote call is
  draft,               \* per note: the normalized fields of processNote
  noteDoc,             \* per note: docId
  resLeft,             \* per note: resources still to process
  thrown,              \* the error caught by processENEXContent
  faults,              \* calls that raised so far
  openai,              \* searchService.openai: is a generator configured
  drain,               \* the processEmbeddingQueue invocations
  search,              \* the search call being served
  search_history       \* table search_history

vars == << now, documents, attachments, embedding_queue, migration_progress,
           pc, migrationId, stats, notes, batchStart, notePc, draft, noteDoc,
           resLeft, thrown, faults, openai, drain, search, search_history >>

\* the state of the search service and of its calls
retrievalVars == << openai, drain, search, search_history >>

\* processEmbeddingQueue invocations, and one that is not running
Drainers == {"d1", "d2"}
ZeroDrainStats == [processed |-> 0, failed |-> 0]
IdleDrain ==
  [ pc |-> "idle", limit |-> 0, items |-> <<>>, i |-> 1,
    stats |-> ZeroDrainStats,
    embedding |-> NULL, error |-> NoText, returned |-> None, skipped |-> FALSE,
    thrown |-> NoText ]

\* no search call is being served
IdleSearch ==
  [ pc |-> "idle", type |-> NoText, query |-> NoText, contexts |-> None,
    area |-> None, limit |-> 0, vectorWeight |-> 0, embedding |-> NULL,
    vectors |-> {}, texts |-> {}, results |-> <<>>, error |-> NoText ]

NoRow == [exists |-> FALSE]
MigIds == (FirstInstant + 1)..(FirstInstant + Cardinality(Procs))

EmptyStats == [total |-> 0, processed |-> 0, failed |-> 0, errors |-> <<>>]

Init ==
  /\ now = FirstInstant
  /\ documents = <<>>
  /\ attachments = <<>>
  /\ embedding_queue = <<>>
  /\ migration_progress = [m \in MigIds |-> NoRow]
  /\ pc = [p \in Procs |-> "absent"]
  /\ migrationId = [p \in Procs |-> NULL]
  /\ stats = [p \in Procs |-> EmptyStats]
  /\ notes = [p \in Procs |-> <<>>]
  /\ batchStart = [p \in Procs |-> 1]
  /\ notePc = [p \in Procs |-> <<>>]
  /\ draft = [p \in Procs |-> <<>>]
  /\ noteDoc = [p \in Procs |-> <<>>]
  /\ resLeft = [p \in Procs |-> <<>>]
  /\ thrown = [p \in Procs |-> NoText]
  /\ faults = 0
  /\ openai = FALSE
  /\ drain = [d \in Drainers |-> IdleDrain]
  /\ search = IdleSearch
  /\ search_history = <<>>


Min(a, b) == IF a < b THEN a ELSE b

\* ------------------------------------------------------------ the store
\* BEFORE UPDATE trigger on documents (update_updated_at_column)
update_updated_at_column(new, t) == [new EXCEPT !.updated_at = t]

\* variant: the column needs_embedding defaults to false
InsertedDocument_FlagOff(d) ==
  [ source_id |-> d.source_id, title |-> d.title, content |-> d.content,
    gtd_contexts |-> d.gtd_contexts, gtd_project |-> d.gtd_project,
    gtd_area |-> d.gtd_area, source_type |-> "evernote",
    created_at |-> d.created_at, updated_at |-> d.updated_at,
    metadata |-> d.metadata,
    embedding |-> NULL, needs_embedding |-> FALSE, is_active |-> TRUE ]

\* the row INSERT INTO documents makes of the values of processNote, the
\* other columns taking their defaults
InsertedDocument(d) ==
  [ source_id |-> d.source_id, title |-> d.title, content |-> d.content,
    gtd_contexts |-> d.gtd_contexts, gtd_project |-> d.gtd_project,
    gtd_area |-> d.gtd_area, source_type |-> "evernote",
    created_at |-> d.created_at, updated_at |-> d.updated_at,
    metadata |-> d.metadata,
    embedding |-> NULL, needs_embedding |-> TRUE, is_active |-> TRUE ]

\* ON CONFLICT (source_id) DO UPDATE SET ..., under the trigger
ConflictUpdate(old, d, t) ==
  update_updated_at_column(
    [old EXCEPT !.content = d.content, !.gtd_contexts = d.gtd_contexts,
                !.gtd_project = d.gtd_project, !.gtd_area = d.gtd_area,
                !.updated_at = d.updated_at, !.metadata = d.metadata], t)

\* the rows of documents that hold this source_id (UNIQUE: at most one)
DocsWithSource(docs, sid) == {k \in 1..Len(docs) : docs[k].source_id = sid}

\* INSERT INTO documents ... ON CONFLICT (source_id) DO UPDATE ... RETURNING id
UpsertedId(docs, d) ==
  IF DocsWithSource(docs, d.source_id) = {} THEN Len(docs) + 1
  ELSE CHOOSE k \in DocsWithSource(docs, d.source_id) : TRUE

\* variant: a plain INSERT, with no conflict target
UpsertDocument_InsertOnly(docs, d, t) == Append(docs, InsertedDocument(d))

UpsertDocument(docs, d, t) ==
  IF DocsWithSource(docs, d.source_id) = {} THEN Append(docs, InsertedDocument(d))
  ELSE [docs EXCEPT ![UpsertedId(docs, d)] = ConflictUpdate(@, d, t)]

\* created_at and updated_at are TIMESTAMP columns: the text an invalid Date
\* is sent as is no timestamp and the INSERT is rejected
TimestampRejected(d) == d.created_at = InvalidDate \/ d.updated_at = InvalidDate
TimestampError == "invalid input syntax for type timestamp"

\* GTDDatabaseClient.addAttachment
addAttachment(rows, documentId) ==
  Append(rows, [document_id |-> documentId])

\* embedding_queue has one unique constraint, its primary key id (SERIAL)
EmbeddingQueueConflict(queue, row) == \E k \in 1..Len(queue) : k = row.id

\* variant: the INSERT always meets a conflict and does nothing
addToEmbeddingQueue_DropsEntry(queue, documentId, priority, t) == queue

\* GTDDatabaseClient.addToEmbeddingQueue: INSERT ... ON CONFLICT DO NOTHING
addToEmbeddingQueue(queue, documentId, priority, t) ==
  LET row == [ id |-> Len(queue) + 1, document_id |-> documentId,
               priority |-> priority, attempts |-> 0, last_error |-> NoText,
               created_at |-> t,
               processed_at |-> NULL ]
  IN IF EmbeddingQueueConflict(queue, row) THEN queue ELSE Append(queue, row)

\* a migration_progress row as INSERT (migration_id, status, started_at) makes it
InsertedProgress(t) ==
  [ exists |-> TRUE, status |-> "running", total_files |-> 0,
    processed_files |-> 0, failed_files |-> 0, error_log |-> <<>>,
    started_at |-> t, completed_at |-> NULL, last_processed |-> NULL ]

\* GTDDatabaseClient.updateMigrationProgress: UPDATE ... SET <the given
\* fields>, last_processed = NOW() WHERE migration_id = $n
updateMigrationProgress(table, id, updates, t) ==
  IF ~table[id].exists THEN table
  ELSE [table EXCEPT ![id] =
          [f \in DOMAIN @ |->
             IF f \in DOMAIN updates THEN updates[f]
             ELSE IF f = "last_processed" THEN t
             ELSE @[f]]]

\* GTDDatabaseClient.getMigrationProgress: result.rows[0], undefined when no
\* row has this migration_id
getMigrationProgress(table, id) ==
  IF id \in DOMAIN table /\ table[id].exists THEN Some(table[id]) ELSE None

\* GET /api/migrate/status/:id
NotFound == [code |-> 404, body |-> "Migration not found"]
MigrationStatus(table, id) ==
  LET status == getMigrationProgress(table, id)
  IN IF status = None THEN NotFound ELSE [code |-> 200, body |-> status[1]]

\* ------------------------------------------------- the migration controller
Constructed(p) == pc[p] # "absent"

\* the instances are named in the order of their construction
EarlierProcs(p) == IF p = "p2" THEN {"p1"} ELSE {}

\* new EvernoteProcessor() at instant t: migrationId = `migration_${Date.now()}`
ConstructProcessor(p, t) ==
  /\ pc[p] = "absent"
  /\ \A q \in EarlierProcs(p) : Constructed(q)
  /\ now' = t
  /\ migrationId' = [migrationId EXCEPT ![p] = t]
  /\ stats' = [stats EXCEPT ![p] = EmptyStats]
  /\ pc' = [pc EXCEPT ![p] = "new"]
  /\ UNCHANGED << documents, attachments, embedding_queue,
                  migration_progress, notes, batchStart, notePc, draft, noteDoc,
                  resLeft, thrown, faults >>
  /\ UNCHANGED retrievalVars

\* variant: the handler answers without awaiting initMigration
Responded_BeforeInit(p) == pc[p] # "absent"

\* POST /api/migrate/evernote has sent { migrationId, message }: it does so
\* in the turn in which it calls processENEXContent, after initMigration
Responded(p) == pc[p] \notin {"absent", "new", "inited"}

\* a trigger that arrives in a later millisecond than the ones before it
Construct(p) ==
  /\ pc[p] = "absent"
  /\ ConstructProcessor(p, now + 1)

\* variant: the INSERT leaves the status to its column default
initMigration_Pending(p) ==
  /\ pc[p] = "new"
  /\ migration_progress' =
       [migration_progress EXCEPT ![migrationId[p]] =
          IF @.exists THEN [@ EXCEPT !.status = "running", !.started_at = now]
          ELSE [InsertedProgress(now) EXCEPT !.status = "pending"]]
  /\ pc' = [pc EXCEPT ![p] = "inited"]
  /\ UNCHANGED << now, documents, attachments, embedding_queue, migrationId,
                  stats, notes, batchStart, notePc, draft, noteDoc, resLeft,
                  thrown, faults >>
  /\ UNCHANGED retrievalVars

\* EvernoteProcessor.initMigration
initMigration(p) ==
  /\ pc[p] = "new"
  /\ migration_progress' =
       [migration_progress EXCEPT ![migrationId[p]] =
          IF @.exists THEN [@ EXCEPT !.status = "running", !.started_at = now]
          ELSE InsertedProgress(now)]
  /\ pc' = [pc EXCEPT ![p] = "inited"]
  /\ UNCHANGED << now, documents, attachments, embedding_queue, migrationId,
                  stats, notes, batchStart, notePc, draft, noteDoc, resLeft,
                  thrown, faults >>
  /\ UNCHANGED retrievalVars

\* variant: the loop test is i <= notes.length
MoreNotes_Inclusive(start, n) == start <= n + 1

\* the loop test i < notes.length, for the 1-based start of a batch
MoreNotes(start, n) == start <= n

BatchOf(p, start) == start..Min(start + batchSize - 1, Len(notes[p]))

\* batch.map(note => this.processNote(note)): every call runs to its first
\* await, in the order of the batch; one that raises ends in its catch
RaisedIn(ns, first, last) ==
  SelectSeq([j \in 1..(last - first + 1) |-> ns[first + j - 1]], NormalizeRaises)

\* variant: the map runs over the notes from the start of the batch to the
\* last one (notes.slice(i))
MapBatch_Unsliced(p, ns, start, st) ==
  LET last == Len(ns)
      raised == RaisedIn(ns, start, last)
      inBatch(k) == k >= start /\ k <= last
  IN /\ stats' = [stats EXCEPT ![p] =
          [st EXCEPT !.failed = @ + Len(raised),
                     !.errors = @ \o [j \in 1..Len(raised) |->
                                        [note |-> raised[j].title,
                                         error |-> NormalizeErrorOf(raised[j])]]]]
     /\ notePc' = [notePc EXCEPT ![p] =
          [k \in 1..Len(ns) |->
             IF ~inBatch(k) THEN (IF k < start THEN notePc[p][k] ELSE "todo")
             ELSE IF NormalizeRaises(ns[k]) THEN "raised" ELSE "upsert"]]
     /\ draft' = [draft EXCEPT ![p] =
          [k \in 1..Len(ns) |->
             IF inBatch(k) /\ ~NormalizeRaises(ns[k]) THEN Some(Normalize(ns[k], now))
             ELSE IF k < start THEN draft[p][k] ELSE None]]
     /\ batchStart' = [batchStart EXCEPT ![p] = start]

MapBatch(p, ns, start, st) ==
  LET last == Min(start + batchSize - 1, Len(ns))
      raised == RaisedIn(ns, start, last)
      inBatch(k) == k >= start /\ k <= last
  IN /\ stats' = [stats EXCEPT ![p] =
          [st EXCEPT !.failed = @ + Len(raised),
                     !.errors = @ \o [j \in 1..Len(raised) |->
                                        [note |-> raised[j].title,
                                         error |-> NormalizeErrorOf(raised[j])]]]]
     /\ notePc' = [notePc EXCEPT ![p] =
          [k \in 1..Len(ns) |->
             IF ~inBatch(k) THEN (IF k < start THEN notePc[p][k] ELSE "todo")
             ELSE IF NormalizeRaises(ns[k]) THEN "raised" ELSE "upsert"]]
     /\ draft' = [draft EXCEPT ![p] =
          [k \in 1..Len(ns) |->
             IF inBatch(k) /\ ~NormalizeRaises(ns[k]) THEN Some(Normalize(ns[k], now))
             ELSE IF k < start THEN draft[p][k] ELSE None]]
     /\ batchStart' = [batchStart EXCEPT ![p] = start]

NotesInFlight == Len(notes["p1"]) + Len(notes["p2"])

\* the body of processENEXContent, from its call to the first await after
\* parsing
RunContent(p, root, export) ==
  /\ NotesInFlight + Len(export) <= MaxNotes
  /\ IF root # "ok"
       THEN /\ export = <<>>
            /\ thrown' = [thrown EXCEPT ![p] =
                 IF root = "noroot" THEN "Invalid ENEX format: missing en-export root"
                 ELSE "parse error"]
            /\ pc' = [pc EXCEPT ![p] = "catch"]
            /\ UNCHANGED << stats, notes, batchStart, notePc, draft, noteDoc, resLeft >>
       ELSE /\ notes' = [notes EXCEPT ![p] = export]
            /\ noteDoc' = [noteDoc EXCEPT ![p] = [k \in 1..Len(export) |-> NULL]]
            /\ resLeft' = [resLeft EXCEPT ![p] = [k \in 1..Len(export) |-> 0]]
            /\ MapBatch(p, export, 1, [stats[p] EXCEPT !.total = Len(export)])
            /\ pc' = [pc EXCEPT ![p] =
                 IF MoreNotes(1, Len(export)) THEN "batch" ELSE "complete"]
            /\ UNCHANGED thrown
  /\ UNCHANGED << now, documents, attachments, embedding_queue,
                  migration_progress, migrationId, faults >>
  /\ UNCHANGED retrievalVars

\* processENEXContent as the HTTP trigger calls it, after initMigration
processENEXContent(p, root, export) ==
  /\ pc[p] = "inited"
  /\ RunContent(p, root, export)

\* processENEXFile called on a new processor: it reads the file and calls
\* processENEXContent, and nothing has called initMigration
processENEXFile(p, root, export) ==
  /\ pc[p] = "new"
  /\ RunContent(p, root, export)

\* processNote: the upsert of the document
NoteUpsert(p, k) ==
  /\ pc[p] = "batch"
  /\ k \in BatchOf(p, batchStart[p])
  /\ notePc[p][k] = "upsert"
  /\ ~TimestampRejected(draft[p][k][1])
  /\ LET d == draft[p][k][1]
     IN /\ documents' = UpsertDocument(documents, d, now)
        /\ noteDoc' = [noteDoc EXCEPT ![p][k] = UpsertedId(documents, d)]
  /\ resLeft' = [resLeft EXCEPT ![p][k] = notes[p][k].resources]
  /\ notePc' = [notePc EXCEPT ![p][k] =
       IF notes[p][k].resources > 0 THEN "resources" ELSE "enqueue"]
  /\ UNCHANGED << now, attachments, embedding_queue, migration_progress, pc,
                  migrationId, stats, notes, batchStart, draft, thrown, faults >>
  /\ UNCHANGED retrievalVars

\* processNote: the store rejects the upsert, the catch counts the note failed
NoteUpsertRejected(p, k) ==
  /\ pc[p] = "batch"
  /\ k \in BatchOf(p, batchStart[p])
  /\ notePc[p][k] = "upsert"
  /\ TimestampRejected(draft[p][k][1])
  /\ stats' = [stats EXCEPT ![p].failed = @ + 1,
                            ![p].errors = Append(@, [note |-> notes[p][k].title,
                                                     error |-> TimestampError])]
  /\ notePc' = [notePc EXCEPT ![p][k] = "raised"]
  /\ UNCHANGED << now, documents, attachments, embedding_queue,
                  migration_progress, pc, migrationId, notes, batchStart, draft,
                  noteDoc, resLeft, thrown, faults >>
  /\ UNCHANGED retrievalVars

\* processNote: one resource of the note (processResource)
NoteResource(p, k) ==
  /\ pc[p] = "batch"
  /\ k \in BatchOf(p, batchStart[p])
  /\ notePc[p][k] = "resources"
  /\ attachments' = addAttachment(attachments, noteDoc[p][k])
  /\ resLeft' = [resLeft EXCEPT ![p][k] = @ - 1]
  /\ notePc' = [notePc EXCEPT ![p][k] = IF resLeft[p][k] = 1 THEN "enqueue" ELSE @]
  /\ UNCHANGED << now, documents, embedding_queue, migration_progress, pc,
                  migrationId, stats, notes, batchStart, draft, noteDoc, thrown,
                  faults >>
  /\ UNCHANGED retrievalVars

\* variant: the note is enqueued and this.stats.processed is left as it was
NoteEnqueue_NoCount(p, k) ==
  /\ pc[p] = "batch"
  /\ k \in BatchOf(p, batchStart[p])
  /\ notePc[p][k] = "enqueue"
  /\ embedding_queue' = addToEmbeddingQueue(embedding_queue, noteDoc[p][k], 5, now)
  /\ notePc' = [notePc EXCEPT ![p][k] = "ok"]
  /\ UNCHANGED << now, documents, attachments, migration_progress, pc,
                  migrationId, stats, notes, batchStart, draft, noteDoc, resLeft,
                  thrown, faults >>
  /\ UNCHANGED retrievalVars

\* processNote: addToEmbeddingQueue, then this.stats.processed++
NoteEnqueue(p, k) ==
  /\ pc[p] = "batch"
  /\ k \in BatchOf(p, batchStart[p])
  /\ notePc[p][k] = "enqueue"
  /\ embedding_queue' = addToEmbeddingQueue(embedding_queue, noteDoc[p][k], 5, now)
  /\ stats' = [stats EXCEPT ![p].processed = @ + 1]
  /\ notePc' = [notePc EXCEPT ![p][k] = "ok"]
  /\ UNCHANGED << now, documents, attachments, migration_progress, pc,
                  migrationId, notes, batchStart, draft, noteDoc, resLeft,
                  thrown, faults >>
  /\ UNCHANGED retrievalVars

\* variant: the batch counts as done when one of its notes is (Promise.race)
BatchDone_Any(p) == \E k \in BatchOf(p, batchStart[p]) : notePc[p][k] \in {"ok", "raised"}

BatchDone(p) == \A k \in BatchOf(p, batchStart[p]) : notePc[p][k] \in {"ok", "raised"}

\* the checkpoint after Promise.all of a batch, and the next iteration
CheckpointWrite(p) ==
  /\ pc[p] = "batch"
  /\ BatchDone(p)
  /\ migration_progress' =
       updateMigrationProgress(migration_progress, migrationId[p],
         [ total_files |-> stats[p].total, processed_files |-> stats[p].processed,
           failed_files |-> stats[p].failed ], now)
  /\ IF MoreNotes(batchStart[p] + batchSize, Len(notes[p]))
       THEN /\ MapBatch(p, notes[p], batchStart[p] + batchSize, stats[p])
            /\ UNCHANGED pc
       ELSE /\ pc' = [pc EXCEPT ![p] = "complete"]
            /\ UNCHANGED << stats, notePc, draft, batchStart >>
  /\ UNCHANGED << now, documents, attachments, embedding_queue, migrationId,
                  notes, noteDoc, resLeft, thrown, faults >>
  /\ UNCHANGED retrievalVars

\* variant: the completion write sets the status and no completion time
CompleteWrite_StatusOnly(p) ==
  /\ pc[p] = "complete"
  /\ migration_progress' =
       updateMigrationProgress(migration_progress, migrationId[p],
         [ status |-> "completed" ], now)
  /\ pc' = [pc EXCEPT ![p] = "returned"]
  /\ UNCHANGED << now, documents, attachments, embedding_queue, migrationId,
                  stats, notes, batchStart, notePc, draft, noteDoc, resLeft,
                  thrown, faults >>
  /\ UNCHANGED retrievalVars

\* "Mark migration as completed", then return this.stats
CompleteWrite(p) ==
  /\ pc[p] = "complete"
  /\ migration_progress' =
       updateMigrationProgress(migration_progress, migrationId[p],
         [ status |-> "completed", completed_at |-> now ], now)
  /\ pc' = [pc EXCEPT ![p] = "returned"]
  /\ UNCHANGED << now, documents, attachments, embedding_queue, migrationId,
                  stats, notes, batchStart, notePc, draft, noteDoc, resLeft,
                  thrown, faults >>
  /\ UNCHANGED retrievalVars

\* variant: the catch sets the status and leaves the error_log alone
FailWrite_NoLog(p) ==
  /\ pc[p] = "catch"
  /\ migration_progress' =
       updateMigrationProgress(migration_progress, migrationId[p],
         [ status |-> "failed" ], now)
  /\ pc' = [pc EXCEPT ![p] = "thrown"]
  /\ UNCHANGED << now, documents, attachments, embedding_queue, migrationId,
                  stats, notes, batchStart, notePc, draft, noteDoc, resLeft,
                  thrown, faults >>
  /\ UNCHANGED retrievalVars

\* the catch of processENEXContent, then the error is thrown again
FailWrite(p) ==
  /\ pc[p] = "catch"
  /\ migration_progress' =
       updateMigrationProgress(migration_progress, migrationId[p],
         [ status |-> "failed",
           error_log |-> Append(stats[p].errors, thrown[p]) ], now)
  /\ pc' = [pc EXCEPT ![p] = "thrown"]
  /\ UNCHANGED << now, documents, attachments, embedding_queue, migrationId,
                  stats, notes, batchStart, notePc, draft, noteDoc, resLeft,
                  thrown, faults >>
  /\ UNCHANGED retrievalVars

Exports == SeqsUpTo(Notes, MaxNotes)

Next ==
  \/ \E p \in Procs : Construct(p)
  \/ \E p \in Procs : initMigration(p)
  \/ \E p \in Procs, root \in RootKinds, export \in Exports :
       processENEXContent(p, root, export)
  \/ \E p \in Procs, k \in 1..MaxNotes : NoteUpsert(p, k)
  \/ \E p \in Procs, k \in 1..MaxNotes : NoteResource(p, k)
  \/ \E p \in Procs, k \in 1..MaxNotes : NoteEnqueue(p, k)
  \/ \E p \in Procs : CheckpointWrite(p)
  \/ \E p \in Procs : CompleteWrite(p)
  \/ \E p \in Procs : FailWrite(p)

Spec == Init /\ [][Next]_vars

\* ------------------------------------------------ store calls that raise
StoreError == "store error"

\* the checkpoint UPDATE raises: control moves to the catch
CheckpointWriteRaises(p) ==
  /\ pc[p] = "batch"
  /\ BatchDone(p)
  /\ faults < MaxFaults
  /\ faults' = faults + 1
  /\ thrown' = [thrown EXCEPT ![p] = StoreError]
  /\ pc' = [pc EXCEPT ![p] = "catch"]
  /\ UNCHANGED << now, documents, attachments, embedding_queue,
                  migration_progress, migrationId, stats, notes, batchStart,
                  notePc, draft, noteDoc, resLeft >>
  /\ UNCHANGED retrievalVars

\* the completion UPDATE raises: control moves to the catch
CompleteWriteRaises(p) ==
  /\ pc[p] = "complete"
  /\ faults < MaxFaults
  /\ faults' = faults + 1
  /\ thrown' = [thrown EXCEPT ![p] = StoreError]
  /\ pc' = [pc EXCEPT ![p] = "catch"]
  /\ UNCHANGED << now, documents, attachments, embedding_queue,
                  migration_progress, migrationId, stats, notes, batchStart,
                  notePc, draft, noteDoc, resLeft >>
  /\ UNCHANGED retrievalVars

\* the UPDATE of the catch raises: that error leaves processENEXContent
FailWriteRaises(p) ==
  /\ pc[p] = "catch"
  /\ faults < MaxFaults
  /\ faults' = faults + 1
  /\ thrown' = [thrown EXCEPT ![p] = StoreError]
  /\ pc' = [pc EXCEPT ![p] = "thrown"]
  /\ UNCHANGED << now, documents, attachments, embedding_queue,
                  migration_progress, migrationId, stats, notes, batchStart,
                  notePc, draft, noteDoc, resLeft >>
  /\ UNCHANGED retrievalVars

\* the upsert or the enqueue of a note raises: the catch of processNote
NoteQueryRaises(p, k) ==
  /\ pc[p] = "batch"
  /\ k \in BatchOf(p, batchStart[p])
  /\ notePc[p][k] \in {"upsert", "enqueue"}
  /\ faults < MaxFaults
  /\ faults' = faults + 1
  /\ stats' = [stats EXCEPT ![p].failed = @ + 1,
                            ![p].errors = Append(@, [note |-> notes[p][k].title,
                                                     error |-> StoreError])]
  /\ notePc' = [notePc EXCEPT ![p][k] = "raised"]
  /\ UNCHANGED << now, documents, attachments, embedding_queue,
                  migration_progress, pc, migrationId, notes, batchStart, draft,
                  noteDoc, resLeft, thrown >>
  /\ UNCHANGED retrievalVars

NextFaults ==
  \/ Next
  \/ \E p \in Procs : CheckpointWriteRaises(p)
  \/ \E p \in Procs : CompleteWriteRaises(p)
  \/ \E p \in Procs : FailWriteRaises(p)
  \/ \E p \in Procs, k \in 1..MaxNotes : NoteQueryRaises(p, k)

\* the migration controller over a store whose calls may raise
SpecFaults == Init /\ [][NextFaults]_vars

\* ------------------------------------------- a resource that cannot be kept
\* where processResource can raise: Buffer.from on the payload, the decoding
\* and parsing of the recognition data, the INSERT of addAttachment
ResourceSteps == {"payload", "recognition", "insert"}

\* variant: processResource has no catch, the error reaches processNote
NoteResourceRaises_Fatal(p, k, step) ==
  /\ pc[p] = "batch"
  /\ k \in BatchOf(p, batchStart[p])
  /\ notePc[p][k] = "resources"
  /\ faults < MaxFaults
  /\ faults' = faults + 1
  /\ stats' = [stats EXCEPT ![p].failed = @ + 1,
                            ![p].errors = Append(@, [note |-> notes[p][k].title,
                                                     error |-> StoreError])]
  /\ notePc' = [notePc EXCEPT ![p][k] = "raised"]
  /\ UNCHANGED << now, documents, attachments, embedding_queue,
                  migration_progress, pc, migrationId, notes, batchStart, draft,
                  noteDoc, resLeft, thrown >>
  /\ UNCHANGED retrievalVars

\* processResource raises at a step: the inner catch ignores an error of the
\* recognition data and the attachment is added; the outer catch logs any
\* other error to the console and returns, no attachment is added
NoteResourceRaises(p, k, step) ==
  /\ pc[p] = "batch"
  /\ k \in BatchOf(p, batchStart[p])
  /\ notePc[p][k] = "resources"
  /\ faults < MaxFaults
  /\ faults' = faults + 1
  /\ attachments' = IF step = "recognition"
                      THEN addAttachment(attachments, noteDoc[p][k])
                      ELSE attachments
  /\ resLeft' = [resLeft EXCEPT ![p][k] = @ - 1]
  /\ notePc' = [notePc EXCEPT ![p][k] = IF resLeft[p][k] = 1 THEN "enqueue" ELSE @]
  /\ UNCHANGED << now, documents, embedding_queue, migration_progress, pc,
                  migrationId, stats, notes, batchStart, draft, noteDoc, thrown >>
  /\ UNCHANGED retrievalVars

\* notes with one and with two resources
NoteR == [ guid |-> 5, sourceGuid |-> NULL, title |-> "t5",
           content |-> ContentText("c5"), created |-> 1, updated |-> 1,
           tags |-> <<W_misc>>, resources |-> 2 ]
ResourceExports == SeqsUpTo({NoteB, NoteR}, MaxNotes)

NextResources ==
  \/ \E p \in {"p1"} : Construct(p)
  \/ \E p \in {"p1"} : initMigration(p)
  \/ \E p \in {"p1"}, export \in ResourceExports :
       processENEXContent(p, "ok", export)
  \/ \E p \in {"p1"}, k \in 1..MaxNotes : NoteUpsert(p, k)
  \/ \E p \in {"p1"}, k \in 1..MaxNotes : NoteResource(p, k)
  \/ \E p \in {"p1"}, k \in 1..MaxNotes, step \in ResourceSteps :
       NoteResourceRaises(p, k, step)
  \/ \E p \in {"p1"}, k \in 1..MaxNotes : NoteEnqueue(p, k)
  \/ \E p \in {"p1"} : CheckpointWrite(p)
  \/ \E p \in {"p1"} : CompleteWrite(p)

\* one run over notes with resources, some of which cannot be kept
SpecResources == Init /\ [][NextResources]_vars

\* ------------------------------------- triggers in the same millisecond
\* a trigger that arrives in the millisecond of the one before it
ConstructSameMs(p) ==
  /\ \E q \in Procs : Constructed(q) /\ migrationId[q] = now
  /\ ConstructProcessor(p, now)

NextSharedId ==
  \/ Next
  \/ \E p \in Procs : ConstructSameMs(p)

\* the migration controller when two processors may get the same migrationId
SpecSharedId == Init /\ [][NextSharedId]_vars

\* ------------------------------------------- the processor called directly
NextDirect ==
  \/ NextSharedId
  \/ \E p \in Procs, root \in RootKinds, export \in Exports :
       processENEXFile(p, root, export)

\* the migration controller started by the HTTP trigger or by a caller of
\* processENEXFile
SpecDirect == Init /\ [][NextDirect]_vars

\* ------------------------------------------------- exports of varied notes
\* <note/> inside an export of several notes: xml2js gives '' for it, and
\* every property read of '' is undefined
EmptyNote == [ guid |-> NULL, sourceGuid |-> NULL, title |-> NoText,
               content |-> ContentAbsent, created |-> NULL, updated |-> NULL,
               tags |-> <<>>, resources |-> 0 ]

\* the tags a note may carry
TagWords ==
  {W_at_computer, W_home, W_project_ap, W_work_project, W_finance, W_misc, W_inbox}
TagLists == SeqsUpTo(TagWords, MaxTags)

\* notes that differ in their tags, their dates and in having a guid
VariedNotes ==
  { [ guid |-> g, sourceGuid |-> NULL, title |-> "t1",
      content |-> ContentText("c1"), created |-> c, updated |-> u,
      tags |-> tags, resources |-> 0 ] :
    g \in {NULL, 1}, c \in {NULL, 1, Unparseable}, u \in {1, Unparseable},
    tags \in TagLists }

\* an export of one varied note, or of several notes some of which are
\* empty or have a content that cannot be normalized; a lone empty note is
\* dropped by [note].filter(Boolean)
VariedExports ==
  {<<n>> : n \in VariedNotes}
    \cup {e \in SeqsUpTo({EmptyNote, NoteA, NoteM}, MaxNotes) : e # <<EmptyNote>>}

\* one run at a time
SingleRun == {"p1"}

NextNotes ==
  \/ \E p \in SingleRun : Construct(p)
  \/ \E p \in SingleRun : initMigration(p)
  \/ \E p \in SingleRun, export \in VariedExports :
       processENEXContent(p, "ok", export)
  \/ \E p \in SingleRun, k \in 1..MaxNotes : NoteUpsert(p, k)
  \/ \E p \in SingleRun, k \in 1..MaxNotes : NoteUpsertRejected(p, k)
  \/ \E p \in SingleRun, k \in 1..MaxNotes : NoteEnqueue(p, k)
  \/ \E p \in SingleRun : CheckpointWrite(p)
  \/ \E p \in SingleRun : CompleteWrite(p)

\* one migration run over an export of varied notes
SpecNotes == Init /\ [][NextNotes]_vars

\* ------------------------------------------- the same export in two runs
\* notes that differ in where their identity comes from: the guid, the
\* source-guid of the note attributes, or neither, with and without a
\* creation date
IdentityNotes ==
  { [ guid |-> g, sourceGuid |-> sg, title |-> "t1",
      content |-> ContentText("c1"), created |-> c, updated |-> 1,
      tags |-> <<W_misc>>, resources |-> 0 ] :
    g \in {NULL, 1}, sg \in {NULL, 7}, c \in {NULL, 1} }

NextReimport ==
  \/ \E p \in Procs : Construct(p)
  \/ \E p \in Procs : initMigration(p)
  \/ \E p \in Procs, n \in IdentityNotes : processENEXContent(p, "ok", <<n>>)
  \/ \E p \in Procs, k \in 1..MaxNotes : NoteUpsert(p, k)
  \/ \E p \in Procs, k \in 1..MaxNotes : NoteEnqueue(p, k)
  \/ \E p \in Procs : CheckpointWrite(p)
  \/ \E p \in Procs : CompleteWrite(p)

\* two runs, each over an export of one note
SpecReimport == Init /\ [][NextReimport]_vars

\* ------------------------------------------------ the store a migration left
\* notes of earlier exports, each with its own identity
NoteC == [ guid |-> 3, sourceGuid |-> NULL, title |-> "t3",
           content |-> ContentText("c3"), created |-> 1, updated |-> 1,
           tags |-> <<W_home, W_area_ops>>, resources |-> 0 ]
NoteD == [ guid |-> 4, sourceGuid |-> NULL, title |-> "t4",
           content |-> ContentText("c4"), created |-> 2, updated |-> 2,
           tags |-> <<W_at_computer, W_area_ops>>, resources |-> 0 ]

\* the documents table after these notes were migrated, in this order
MigratedNotes == <<NoteA, NoteC, NoteD>>
MigratedDocuments(n) ==
  [k \in 1..n |-> InsertedDocument(Normalize(MigratedNotes[k], FirstInstant))]

\* the instants at which the rows of embedding_queue were inserted
QueueInstants == {FirstInstant - 1, FirstInstant}
\* the priorities addToEmbeddingQueue was called with (5 when not given)
Priorities == {5, 8}

\* the tables embedding_queue that n calls of addToEmbeddingQueue leave when
\* the documents 1..nDocs are enqueued in turn
RECURSIVE QueuesOf(_, _)
QueuesOf(n, nDocs) ==
  IF n = 0 THEN {<<>>}
  ELSE { addToEmbeddingQueue(q, ((n - 1) % nDocs) + 1, pri, t) :
           q \in QueuesOf(n - 1, nDocs), pri \in Priorities, t \in QueueInstants }

\* the instants do not decrease from one call to the next
NonDecreasing(q) ==
  \A k \in 1..(Len(q) - 1) : q[k].created_at <= q[k + 1].created_at

\* ------------------------------------------------- the embedding generator
\* A vector is a unit vector of the plane, named by its direction in degrees
\* (1..360); the generator is a function of the text it is given.
\* A text is the sequence of the strings it is the concatenation of.
\* `${item.title}\n\n${item.content || ''}`.slice(0, 8000): the texts of the
\* model are far shorter than 8000 characters, the slice keeps them whole
EmbeddingInput(item) == <<item.title, "\n\n", item.content>>

generateEmbedding(text) ==
  CASE text = <<"t1", "\n\n", "c1">> -> 60
    [] text = <<"t3", "\n\n", "c3">> -> 120
    [] text = <<"t4", "\n\n", "c4">> -> 360
    [] text = <<"q1">> -> 360
    [] OTHER -> 240

GeneratorError == "generator unavailable"
NoClientError == "OpenAI client not initialized"

\* ------------------------------------------------ the embedding queue drain
\* the unprocessed rows of the queue that join a document
Unprocessed(queue, docs) ==
  {k \in 1..Len(queue) : /\ queue[k].processed_at = NULL
                         /\ queue[k].document_id \in 1..Len(docs)}

\* ORDER BY eq.priority DESC, eq.created_at ASC: row a sorts before row b
SortsBefore(a, b) ==
  \/ a.priority > b.priority
  \/ a.priority = b.priority /\ a.created_at < b.created_at

\* SELECT eq.*, d.title, d.content ...: the columns processEmbeddingQueue reads
QueueItem(queue, docs, k) ==
  [ id |-> k, document_id |-> queue[k].document_id,
    title |-> docs[queue[k].document_id].title,
    content |-> docs[queue[k].document_id].content ]

\* variant: the query without its ORDER BY
getEmbeddingQueueItems_Unordered(queue, docs, limit) ==
  LET rows == Unprocessed(queue, docs)
      n == Min(limit, Cardinality(rows))
  IN { [i \in 1..n |-> QueueItem(queue, docs, s[i])] :
         s \in {f \in [1..n -> rows] : \A i, j \in 1..n : i < j => f[i] # f[j]} }

\* GTDDatabaseClient.getEmbeddingQueueItems(limit): every result the query
\* may give, rows that tie in the ORDER BY coming in any order
getEmbeddingQueueItems(queue, docs, limit) ==
  LET rows == Unprocessed(queue, docs)
      n == Min(limit, Cardinality(rows))
      sorted(s) ==
        /\ \A i, j \in 1..n : i < j =>
             s[i] # s[j] /\ ~SortsBefore(queue[s[j]], queue[s[i]])
        /\ \A k \in rows : (\A i \in 1..n : s[i] # k) =>
             \A i \in 1..n : ~SortsBefore(queue[k], queue[s[i]])
  IN { [i \in 1..n |-> QueueItem(queue, docs, s[i])] :
         s \in {f \in [1..n -> rows] : sorted(f)} }

\* variant: the vector is stored and needs_embedding is left as it was
updateEmbedding_KeepsFlag(docs, documentId, embedding, t) ==
  IF documentId \notin 1..Len(docs) THEN docs
  ELSE [docs EXCEPT ![documentId] =
          update_updated_at_column([@ EXCEPT !.embedding = embedding], t)]

\* GTDDatabaseClient.updateEmbedding: UPDATE documents SET embedding = $2,
\* needs_embedding = false WHERE id = $1, under the trigger
updateEmbedding(docs, documentId, embedding, t) ==
  IF documentId \notin 1..Len(docs) THEN docs
  ELSE [docs EXCEPT ![documentId] =
          update_updated_at_column(
            [@ EXCEPT !.embedding = embedding, !.needs_embedding = FALSE], t)]

\* UPDATE embedding_queue SET processed_at = NOW() WHERE id = $1
MarkProcessed(queue, id, t) ==
  IF id \notin 1..Len(queue) THEN queue
  ELSE [queue EXCEPT ![id].processed_at = t]

\* UPDATE embedding_queue SET attempts = attempts + 1, last_error = $2
\* WHERE id = $1; the column is counted up to MaxAttempts
RecordFailure(queue, id, message) ==
  IF id \notin 1..Len(queue) THEN queue
  ELSE [queue EXCEPT ![id].attempts = Min(@ + 1, MaxAttempts),
                     ![id].last_error = message]

Item(d) == drain[d].items[drain[d].i]

\* the for loop goes to its next item, or the invocation returns its stats
DrainAdvance(d, st) ==
  IF drain[d].i < Len(drain[d].items)
    THEN [drain[d] EXCEPT !.pc = "generate", !.i = @ + 1, !.stats = st,
                          !.embedding = NULL, !.error = NoText]
  ELSE [IdleDrain EXCEPT !.returned = Some(st)]

\* variant: the invocation does not look at the credential
processEmbeddingQueue_NoSkip(d, n) ==
  /\ drain[d].pc = "idle"
  /\ \E selected \in getEmbeddingQueueItems(embedding_queue, documents, n) :
       drain' = [drain EXCEPT ![d] =
         IF selected = <<>>
           THEN [IdleDrain EXCEPT !.returned = Some(ZeroDrainStats)]
         ELSE [IdleDrain EXCEPT !.pc = "generate", !.limit = n,
                                !.items = selected]]
  /\ UNCHANGED << now, documents, attachments, embedding_queue,
                  migration_progress, pc, migrationId, stats, notes, batchStart,
                  notePc, draft, noteDoc, resLeft, thrown, faults, openai,
                  search, search_history >>

\* processEmbeddingQueue(batchSize = n), up to the first item of the loop
processEmbeddingQueue(d, n) ==
  /\ drain[d].pc = "idle"
  /\ IF ~openai
       THEN drain' = [drain EXCEPT ![d] =
                        [IdleDrain EXCEPT !.returned = Some(ZeroDrainStats),
                                          !.skipped = TRUE]]
       ELSE \E selected \in getEmbeddingQueueItems(embedding_queue, documents, n) :
              drain' = [drain EXCEPT ![d] =
                IF selected = <<>>
                  THEN [IdleDrain EXCEPT !.returned = Some(ZeroDrainStats)]
                ELSE [IdleDrain EXCEPT !.pc = "generate", !.limit = n,
                                       !.items = selected]]
  /\ UNCHANGED << now, documents, attachments, embedding_queue,
                  migration_progress, pc, migrationId, stats, notes, batchStart,
                  notePc, draft, noteDoc, resLeft, thrown, faults, openai,
                  search, search_history >>

\* the generator answers: const embedding = await this.generateEmbedding(text)
DrainGenerate(d) ==
  /\ drain[d].pc = "generate"
  /\ openai
  /\ drain' = [drain EXCEPT ![d].pc = "update",
                            ![d].embedding = generateEmbedding(EmbeddingInput(Item(d)))]
  /\ UNCHANGED << now, documents, attachments, embedding_queue,
                  migration_progress, pc, migrationId, stats, notes, batchStart,
                  notePc, draft, noteDoc, resLeft, thrown, faults, openai,
                  search, search_history >>

\* the calls that raise in one behaviour are bounded
MayFail == faults < MaxFaults

\* generateEmbedding raises: no client, or the generator is unavailable
DrainGenerateRaises(d) ==
  /\ drain[d].pc = "generate"
  /\ IF ~openai
       THEN /\ drain' = [drain EXCEPT ![d].pc = "catch", ![d].error = NoClientError]
            /\ UNCHANGED faults
       ELSE /\ MayFail
            /\ faults' = faults + 1
            /\ drain' = [drain EXCEPT ![d].pc = "catch", ![d].error = GeneratorError]
  /\ UNCHANGED << now, documents, attachments, embedding_queue,
                  migration_progress, pc, migrationId, stats, notes, batchStart,
                  notePc, draft, noteDoc, resLeft, thrown, openai,
                  search, search_history >>

\* await gtdDB.updateEmbedding(item.document_id, embedding)
DrainUpdate(d) ==
  /\ drain[d].pc = "update"
  /\ documents' = updateEmbedding(documents, Item(d).document_id,
                                  drain[d].embedding, now)
  /\ drain' = [drain EXCEPT ![d].pc = "mark"]
  /\ UNCHANGED << now, attachments, embedding_queue, migration_progress, pc,
                  migrationId, stats, notes, batchStart, notePc, draft, noteDoc,
                  resLeft, thrown, faults, openai, search, search_history >>

\* the update of the document raises
DrainUpdateRaises(d) ==
  /\ drain[d].pc = "update"
  /\ MayFail
  /\ faults' = faults + 1
  /\ drain' = [drain EXCEPT ![d].pc = "catch", ![d].error = StoreError]
  /\ UNCHANGED << now, documents, attachments, embedding_queue,
                  migration_progress, pc, migrationId, stats, notes, batchStart,
                  notePc, draft, noteDoc, resLeft, thrown, openai,
                  search, search_history >>

\* variant: the entry is marked processed and the document left as it was
DrainMark_Only(d) ==
  /\ drain[d].pc \in {"update", "mark"}
  /\ embedding_queue' = MarkProcessed(embedding_queue, Item(d).id, now)
  /\ drain' = [drain EXCEPT ![d] =
                 DrainAdvance(d, [drain[d].stats EXCEPT !.processed = @ + 1])]
  /\ UNCHANGED << now, documents, attachments, migration_progress, pc,
                  migrationId, stats, notes, batchStart, notePc, draft, noteDoc,
                  resLeft, thrown, faults, openai, search, search_history >>

\* the entry is marked processed, then stats.processed++
DrainMark(d) ==
  /\ drain[d].pc = "mark"
  /\ embedding_queue' = MarkProcessed(embedding_queue, Item(d).id, now)
  /\ drain' = [drain EXCEPT ![d] =
                 DrainAdvance(d, [drain[d].stats EXCEPT !.processed = @ + 1])]
  /\ UNCHANGED << now, documents, attachments, migration_progress, pc,
                  migrationId, stats, notes, batchStart, notePc, draft, noteDoc,
                  resLeft, thrown, faults, openai, search, search_history >>

\* variant: the catch block records the error and leaves attempts alone
DrainCatch_NoCount(d) ==
  /\ drain[d].pc = "catch"
  /\ embedding_queue' = [embedding_queue EXCEPT
                           ![Item(d).id].last_error = drain[d].error]
  /\ drain' = [drain EXCEPT ![d] =
                 DrainAdvance(d, [drain[d].stats EXCEPT !.failed = @ + 1])]
  /\ UNCHANGED << now, documents, attachments, migration_progress, pc,
                  migrationId, stats, notes, batchStart, notePc, draft, noteDoc,
                  resLeft, thrown, faults, openai, search, search_history >>

\* the catch block: the error goes to the queue row, then stats.failed++
DrainCatch(d) ==
  /\ drain[d].pc = "catch"
  /\ embedding_queue' = RecordFailure(embedding_queue, Item(d).id, drain[d].error)
  /\ drain' = [drain EXCEPT ![d] =
                 DrainAdvance(d, [drain[d].stats EXCEPT !.failed = @ + 1])]
  /\ UNCHANGED << now, documents, attachments, migration_progress, pc,
                  migrationId, stats, notes, batchStart, notePc, draft, noteDoc,
                  resLeft, thrown, faults, openai, search, search_history >>

\* no migration is running and none has run in this process
NoMigration ==
  /\ now = FirstInstant
  /\ attachments = <<>>
  /\ migration_progress = [m \in MigIds |-> NoRow]
  /\ pc = [p \in Procs |-> "absent"]
  /\ migrationId = [p \in Procs |-> NULL]
  /\ stats = [p \in Procs |-> EmptyStats]
  /\ notes = [p \in Procs |-> <<>>]
  /\ batchStart = [p \in Procs |-> 1]
  /\ notePc = [p \in Procs |-> <<>>]
  /\ draft = [p \in Procs |-> <<>>]
  /\ noteDoc = [p \in Procs |-> <<>>]
  /\ resLeft = [p \in Procs |-> <<>>]
  /\ thrown = [p \in Procs |-> NoText]
  /\ faults = 0

\* the service starts on a store that earlier migrations filled
InitQueue ==
  /\ NoMigration
  /\ documents = MigratedDocuments(QueueDocs)
  /\ \E n \in 1..MaxQueue :
       embedding_queue \in {q \in QueuesOf(n, QueueDocs) : NonDecreasing(q)}
  /\ openai \in BOOLEAN
  /\ drain = [d \in Drainers |-> IdleDrain]
  /\ search = IdleSearch
  /\ search_history = <<>>

\* the invocations of processEmbeddingQueue that follow one another
Sequential == {"d1"}

NextQueue ==
  \/ \E d \in Sequential, n \in 1..MaxBatch : processEmbeddingQueue(d, n)
  \/ \E d \in Sequential : DrainGenerate(d)
  \/ \E d \in Sequential : DrainGenerateRaises(d)
  \/ \E d \in Sequential : DrainUpdate(d)
  \/ \E d \in Sequential : DrainUpdateRaises(d)
  \/ \E d \in Sequential : DrainMark(d)
  \/ \E d \in Sequential : DrainCatch(d)

\* the embedding queue processor, one invocation at a time
SpecQueue == InitQueue /\ [][NextQueue]_vars

\* -------------------------------------------- a store that stays unavailable
\* the UPDATE that marks the entry processed raises, after the vector was
\* stored: control moves to the catch block
DrainMarkRaises(d) ==
  /\ drain[d].pc = "mark"
  /\ MayFail
  /\ faults' = faults + 1
  /\ drain' = [drain EXCEPT ![d].pc = "catch", ![d].error = StoreError]
  /\ UNCHANGED << now, documents, attachments, embedding_queue,
                  migration_progress, pc, migrationId, stats, notes, batchStart,
                  notePc, draft, noteDoc, resLeft, thrown, openai,
                  search, search_history >>

\* the UPDATE of the catch block raises, the store that refused the call of
\* the try block refusing this one too: nothing catches it, the invocation
\* rejects with this error and returns no stats
DrainCatchRaises(d) ==
  /\ drain[d].pc = "catch"
  /\ drain[d].error = StoreError
  /\ drain' = [drain EXCEPT ![d] = [IdleDrain EXCEPT !.thrown = StoreError]]
  /\ UNCHANGED << now, documents, attachments, embedding_queue,
                  migration_progress, pc, migrationId, stats, notes, batchStart,
                  notePc, draft, noteDoc, resLeft, thrown, faults, openai,
                  search, search_history >>

NextQueueFaults ==
  \/ NextQueue
  \/ \E d \in Sequential : DrainMarkRaises(d)
  \/ \E d \in Sequential : DrainCatchRaises(d)

\* the embedding queue processor, one invocation at a time, over a store
\* that may stay unavailable from one call to the next
SpecQueueFaults == InitQueue /\ [][NextQueueFaults]_vars

\* ------------------------------------------------- invocations that overlap
\* the service has its credential; the queue is as a migration left it
InitOverlap ==
  /\ InitQueue
  /\ openai

\* two requests to POST /api/embeddings/process are served at once: the awaits
\* of one invocation interleave with those of the other, and nothing claims
\* or locks the rows an invocation selected
NextOverlap ==
  \/ \E d \in Drainers, n \in 1..MaxBatch : processEmbeddingQueue(d, n)
  \/ \E d \in Drainers : DrainGenerate(d)
  \/ \E d \in Drainers : DrainUpdate(d)
  \/ \E d \in Drainers : DrainMark(d)

SpecOverlap == InitOverlap /\ [][NextOverlap]_vars

\* overlapping invocations whose generator call or document update may raise
NextOverlapFaults ==
  \/ NextOverlap
  \/ \E d \in Drainers : DrainGenerateRaises(d)
  \/ \E d \in Drainers : DrainUpdateRaises(d)
  \/ \E d \in Drainers : DrainCatch(d)

SpecOverlapFaults == InitOverlap /\ [][NextOverlapFaults]_vars

\* ------------------------------------------ texts the generator never takes
\* the texts for which the embeddings API answers with an error every time
RejectedTexts == { <<"t1", "\n\n", "c1">> }

\* the generator answers for a text it takes
DrainGenerateAccepts(d) ==
  /\ drain[d].pc = "generate"
  /\ EmbeddingInput(Item(d)) \notin RejectedTexts
  /\ DrainGenerate(d)

\* the generator raises for a text it never takes
DrainGenerateRejects(d) ==
  /\ drain[d].pc = "generate"
  /\ openai
  /\ EmbeddingInput(Item(d)) \in RejectedTexts
  /\ drain' = [drain EXCEPT ![d].pc = "catch", ![d].error = GeneratorError]
  /\ UNCHANGED << now, documents, attachments, embedding_queue,
                  migration_progress, pc, migrationId, stats, notes, batchStart,
                  notePc, draft, noteDoc, resLeft, thrown, faults, openai,
                  search, search_history >>

\* processEmbeddingQueue(MaxBatch) is called again and again, one invocation
\* after the other
NextStarve ==
  \/ \E d \in Sequential : processEmbeddingQueue(d, MaxBatch)
  \/ \E d \in Sequential : DrainGenerateAccepts(d)
  \/ \E d \in Sequential : DrainGenerateRejects(d)
  \/ \E d \in Sequential : DrainUpdate(d)
  \/ \E d \in Sequential : DrainMark(d)
  \/ \E d \in Sequential : DrainCatch(d)

\* every await of an invocation resolves and a next invocation always comes
SpecStarve == InitOverlap /\ [][NextStarve]_vars /\ WF_vars(NextStarve)

\* ------------------------------------------------------ the search primitives
\* Scores are in hundredths, the vector weight in tenths, a combined score in
\* thousandths.
\* 1 - (a <=> b), the cosine of the angle between two unit vectors
Cosine(a, b) ==
  LET turn == (a - b) % 360
  IN CASE turn = 0 -> 100
       [] turn \in {60, 300} -> 50
       [] turn \in {120, 240} -> -50
       [] turn = 180 -> -100
       [] OTHER -> 0

VectorScore(doc, embedding) == Cosine(doc.embedding, embedding)

\* ts_rank(d.content_vector, websearch_to_tsquery('english', query)) of the
\* documents of the catalogue; the documents that match the query are those
\* of positive rank
ts_rank(doc, query) ==
  CASE query = "q1" /\ doc.content = "c1" -> 80
    [] query = "q1" /\ doc.content = "c3" -> 30
    [] OTHER -> 0

\* d.content_vector @@ websearch_to_tsquery('english', query)
TextMatches(doc, query) == ts_rank(doc, query) > 0

\* context_filter IS NULL OR d.gtd_contexts && context_filter
ContextFilter(doc, contexts) ==
  \/ contexts = None
  \/ \E i \in 1..Len(doc.gtd_contexts) : doc.gtd_contexts[i] \in contexts[1]

\* area_filter IS NULL OR d.gtd_area = area_filter
AreaFilter(doc, area) == area = None \/ doc.gtd_area = area

\* ORDER BY key DESC LIMIT n over the rows cands: every result the query may
\* give, rows of the same key in any order
OrderDescLimit(cands, key, n) ==
  LET m == Min(n, Cardinality(cands))
  IN { s \in [1..m -> cands] :
         /\ \A i, j \in 1..m : i < j => s[i] # s[j] /\ key[s[i]] >= key[s[j]]
         /\ \A k \in cands : (\A i \in 1..m : s[i] # k) =>
              \A i \in 1..m : key[k] <= key[s[i]] }

\* LIMIT n with no ORDER BY: any n of the rows
AnyLimit(cands, n) ==
  {S \in SUBSET cands : Cardinality(S) = Min(n, Cardinality(cands))}

\* search_documents(search_query, context_filter, area_filter, limit_count)
search_documents(docs, query, contexts, area, limit) ==
  LET cands == {k \in 1..Len(docs) :
                  /\ TextMatches(docs[k], query)
                  /\ docs[k].is_active
                  /\ ContextFilter(docs[k], contexts)
                  /\ AreaFilter(docs[k], area)}
      rank == [k \in cands |-> ts_rank(docs[k], query)]
  IN { [i \in 1..Len(s) |-> [id |-> s[i], score |-> rank[s[i]]]] :
         s \in OrderDescLimit(cands, rank, limit) }

\* hybrid_search, WITH vector_search AS (... LIMIT limit_count * 2): the ids
vector_search(docs, embedding, contexts, limit) ==
  LET cands == {k \in 1..Len(docs) :
                  /\ docs[k].embedding # NULL
                  /\ docs[k].is_active
                  /\ ContextFilter(docs[k], contexts)}
      score == [k \in cands |-> VectorScore(docs[k], embedding)]
  IN { {s[i] : i \in 1..Len(s)} : s \in OrderDescLimit(cands, score, limit * 2) }

\* hybrid_search, text_search AS (... LIMIT limit_count * 2): the ids
text_search(docs, query, contexts, limit) ==
  AnyLimit({k \in 1..Len(docs) :
              /\ TextMatches(docs[k], query)
              /\ docs[k].is_active
              /\ ContextFilter(docs[k], contexts)}, limit * 2)

\* variant: the weight on the text score and its complement on the vector score
combined_WeightsSwapped(docs, query, embedding, weight, V, T) ==
  [k \in V \cup T |->
     (IF k \in V THEN VectorScore(docs[k], embedding) ELSE 0) * (10 - weight) +
     (IF k \in T THEN ts_rank(docs[k], query) ELSE 0) * weight]

\* hybrid_search, combined AS (... FULL OUTER JOIN ...): the score of each id
combined(docs, query, embedding, weight, V, T) ==
  [k \in V \cup T |->
     (IF k \in V THEN VectorScore(docs[k], embedding) ELSE 0) * weight +
     (IF k \in T THEN ts_rank(docs[k], query) ELSE 0) * (10 - weight)]

\* variant: the final SELECT with LIMIT and no ORDER BY
hybrid_search_Unordered(docs, query, embedding, weight, limit, V, T) ==
  LET c == combined(docs, query, embedding, weight, V, T)
      m == Min(limit, Cardinality(DOMAIN c))
  IN { [i \in 1..m |-> [id |-> s[i], score |-> c[s[i]]]] :
         s \in {f \in [1..m -> DOMAIN c] : \A i, j \in 1..m : i < j => f[i] # f[j]} }

\* hybrid_search, the final SELECT ... ORDER BY c.score DESC LIMIT limit_count
\* over the candidate sets V and T
hybrid_search(docs, query, embedding, weight, limit, V, T) ==
  LET c == combined(docs, query, embedding, weight, V, T)
  IN { [i \in 1..Len(s) |-> [id |-> s[i], score |-> c[s[i]]]] :
         s \in OrderDescLimit(DOMAIN c, c, limit) }

\* GTDSearchService.vectorSearch: its statement has the parameters $1 and $4
\* and, with them, $2 only for contexts and $3 only for area, while the values
\* it binds are [embedding, contexts?, area?, limit]
VectorSearchBinds(contexts, area) == contexts # None /\ area # None
BindError == "bind message supplies too few parameters"

vectorSearch(docs, embedding, contexts, area, limit) ==
  LET cands == {k \in 1..Len(docs) :
                  /\ docs[k].embedding # NULL
                  /\ docs[k].is_active
                  /\ ContextFilter(docs[k], contexts)
                  /\ AreaFilter(docs[k], area)}
      score == [k \in cands |-> VectorScore(docs[k], embedding)]
  IN { [i \in 1..Len(s) |-> [id |-> s[i], score |-> score[s[i]]]] :
         s \in OrderDescLimit(cands, score, limit) }

\* GTDDatabaseClient.recordSearch
recordSearch(history, query, options, resultCount) ==
  Append(history, [query |-> query, filters |-> options,
                   result_count |-> resultCount])

\* ------------------------------------------------------------- the search
Types == {"text", "vector", "hybrid"}
Queries == {"q1"}
ContextFilters == {None, Some({W_at_computer})}
AreaFilters == {None, Some(W_finance)}
Weights == {6, 10}
VectorKeyError == "Vector search requires OPENAI_API_KEY"

\* variant: case 'vector' without its check of the client
VectorNeedsKey_Unchecked(type) == FALSE

\* case 'vector': if (!this.openai) throw new Error(...)
VectorNeedsKey(type) == type = "vector" /\ ~openai

\* variant: a hybrid search goes to the generator whether there is one or not
Dispatch_NoFallback(type) ==
  CASE type = "text" -> "text"
    [] type = "vector" -> IF VectorNeedsKey(type) THEN "failed" ELSE "embed"
    [] type = "hybrid" -> "embed"

\* the switch of search (lines 352-375): where the call goes first
Dispatch(type) ==
  CASE type = "text" -> "text"
    [] type = "vector" -> IF VectorNeedsKey(type) THEN "failed" ELSE "embed"
    [] type = "hybrid" -> IF ~openai THEN "text" ELSE "embed"

\* search(query, options), up to its first await
SearchCall(type, query, contexts, area, limit, weight) ==
  /\ search.pc \in {"idle", "done", "failed"}
  /\ Len(search_history) < MaxSearches
  /\ search' = [IdleSearch EXCEPT
                  !.pc = Dispatch(type), !.type = type, !.query = query,
                  !.contexts = contexts, !.area = area, !.limit = limit,
                  !.vectorWeight = weight,
                  !.error = IF Dispatch(type) = "failed" THEN VectorKeyError
                            ELSE NoText]
  /\ UNCHANGED << now, documents, attachments, embedding_queue,
                  migration_progress, pc, migrationId, stats, notes, batchStart,
                  notePc, draft, noteDoc, resLeft, thrown, faults, openai,
                  drain, search_history >>

\* textSearch: gtdDB.searchDocuments(query, { contexts, area, limit })
SearchText ==
  /\ search.pc = "text"
  /\ \E rows \in search_documents(documents, search.query, search.contexts,
                                  search.area, search.limit) :
       search' = [search EXCEPT !.pc = "record", !.results = rows]
  /\ UNCHANGED << now, documents, attachments, embedding_queue,
                  migration_progress, pc, migrationId, stats, notes, batchStart,
                  notePc, draft, noteDoc, resLeft, thrown, faults, openai,
                  drain, search_history >>

\* generateEmbedding(query) of vectorSearch and of hybridSearch answers
SearchEmbed ==
  /\ search.pc = "embed"
  /\ openai
  /\ search' = [search EXCEPT !.pc = search.type,
                              !.embedding = generateEmbedding(<<search.query>>)]
  /\ UNCHANGED << now, documents, attachments, embedding_queue,
                  migration_progress, pc, migrationId, stats, notes, batchStart,
                  notePc, draft, noteDoc, resLeft, thrown, faults, openai,
                  drain, search_history >>

\* generateEmbedding raises: the error leaves vectorSearch or hybridSearch and
\* search, which have no catch, and reaches the caller
SearchEmbedRaises ==
  /\ search.pc = "embed"
  /\ IF ~openai
       THEN /\ search' = [search EXCEPT !.pc = "failed", !.error = NoClientError]
            /\ UNCHANGED faults
       ELSE /\ MayFail
            /\ faults' = faults + 1
            /\ search' = [search EXCEPT !.pc = "failed", !.error = GeneratorError]
  /\ UNCHANGED << now, documents, attachments, embedding_queue,
                  migration_progress, pc, migrationId, stats, notes, batchStart,
                  notePc, draft, noteDoc, resLeft, thrown, openai,
                  drain, search_history >>

\* hybridSearch: gtdDB.hybridSearch(query, embedding, { contexts,
\* vectorWeight, limit }), the area of the options is not handed on
SearchHybrid ==
  /\ search.pc = "hybrid"
  /\ \E V \in vector_search(documents, search.embedding, search.contexts,
                            search.limit),
        T \in text_search(documents, search.query, search.contexts,
                          search.limit) :
       \E rows \in hybrid_search(documents, search.query, search.embedding,
                                 search.vectorWeight, search.limit, V, T) :
         search' = [search EXCEPT !.pc = "record", !.vectors = V, !.texts = T,
                                  !.results = rows]
  /\ UNCHANGED << now, documents, attachments, embedding_queue,
                  migration_progress, pc, migrationId, stats, notes, batchStart,
                  notePc, draft, noteDoc, resLeft, thrown, faults, openai,
                  drain, search_history >>

\* vectorSearch, after the embedding: the query, which the store rejects
\* unless both filters were given
SearchVector ==
  /\ search.pc = "vector"
  /\ IF VectorSearchBinds(search.contexts, search.area)
       THEN \E rows \in vectorSearch(documents, search.embedding,
                                     search.contexts, search.area, search.limit) :
              search' = [search EXCEPT !.pc = "record", !.results = rows]
       ELSE search' = [search EXCEPT !.pc = "failed", !.error = BindError]
  /\ UNCHANGED << now, documents, attachments, embedding_queue,
                  migration_progress, pc, migrationId, stats, notes, batchStart,
                  notePc, draft, noteDoc, resLeft, thrown, faults, openai,
                  drain, search_history >>

\* the options search was called with, as recordSearch stores them
OptionsOf(s) ==
  [ type |-> s.type, contexts |-> s.contexts, area |-> s.area,
    limit |-> s.limit, vectorWeight |-> s.vectorWeight ]

\* recordSearch(query, options, results.length), then the results go back
SearchRecord ==
  /\ search.pc = "record"
  /\ search_history' = recordSearch(search_history, search.query,
                                    OptionsOf(search), Len(search.results))
  /\ search' = [search EXCEPT !.pc = "done"]
  /\ UNCHANGED << now, documents, attachments, embedding_queue,
                  migration_progress, pc, migrationId, stats, notes, batchStart,
                  notePc, draft, noteDoc, resLeft, thrown, faults, openai, drain >>

\* UPDATE documents SET is_active = false WHERE id = $1, under the trigger
SoftDelete(docs, id, t) ==
  [docs EXCEPT ![id] = update_updated_at_column([@ EXCEPT !.is_active = FALSE], t)]

\* the documents of the catalogue, those of E embedded by a drain and those
\* of D deleted
RECURSIVE StoreOf(_, _, _)
StoreOf(n, E, D) ==
  IF n = 0 THEN MigratedDocuments(Len(MigratedNotes))
  ELSE LET docs == StoreOf(n - 1, E, D)
           embedded == IF n \in E
                         THEN updateEmbedding(docs, n,
                                generateEmbedding(EmbeddingInput(docs[n])),
                                FirstInstant)
                       ELSE docs
       IN IF n \in D THEN SoftDelete(embedded, n, FirstInstant) ELSE embedded

\* the queue these documents went through
QueueOf(n, E) ==
  [k \in 1..n |->
     [ id |-> k, document_id |-> k, priority |-> 5, attempts |-> 0,
       last_error |-> NoText, created_at |-> FirstInstant,
       processed_at |-> IF k \in E THEN FirstInstant ELSE NULL ]]

InitSearch ==
  /\ NoMigration
  /\ \E E \in SUBSET (1..Len(MigratedNotes)), D \in SUBSET {2} :
       /\ documents = StoreOf(Len(MigratedNotes), E, D)
       /\ embedding_queue = QueueOf(Len(MigratedNotes), E)
  /\ openai \in BOOLEAN
  /\ drain = [d \in Drainers |-> IdleDrain]
  /\ search = IdleSearch
  /\ search_history = <<>>

NextSearch ==
  \/ \E type \in Types, query \in Queries, contexts \in ContextFilters,
        area \in AreaFilters, limit \in 1..MaxLimit, weight \in Weights :
       SearchCall(type, query, contexts, area, limit, weight)
  \/ SearchText
  \/ SearchEmbed
  \/ SearchEmbedRaises
  \/ SearchHybrid
  \/ SearchVector
  \/ SearchRecord

\* the search service over a store that does not change meanwhile
SpecSearch == InitSearch /\ [][NextSearch]_vars

\* ================================================================ claims
Row(p) == migration_progress[migrationId[p]]
HasRow(p) == Constructed(p) /\ Row(p).exists
StructuralErrors == {"parse error", "Invalid ENEX format: missing en-export root"}
\* the root of the export of p parsed: processENEXContent went past line 41
RootParsed(p) == pc[p] \in {"batch", "complete", "returned"}
CountOf(p, state) == Cardinality({k \in 1..Len(notes[p]) : notePc[p][k] = state})
\* the notes whose upsert has returned an id, as <<processor, index>>
UpsertedNotes ==
  {a \in UNION {{<<p, k>> : k \in 1..Len(notes[p])} : p \in Procs} :
     noteDoc[a[1]][a[2]] # NULL}

\* C1: in a run whose export root parsed, when every batch has been processed
\* and processENEXContent has returned, the job row holds status 'completed'
\* and a completion time, however many notes failed; and while or after the
\* notes are processed the job is never 'failed'.
C1_CompletedWhateverFailed ==
  \A p \in Procs :
    /\ RootParsed(p) => Row(p).status # "failed"
    /\ pc[p] = "returned" =>
         /\ Row(p).status = "completed"
         /\ Row(p).completed_at # NULL

C1_Witness ==
  \E p \in Procs :
    /\ pc[p] = "returned"
    /\ stats[p].failed >= 1
    /\ stats[p].processed >= 1
    /\ Row(p).status = "completed"

\* C2: a job row that holds 'completed' has processed_files + failed_files =
\* total_files = the number of notes of the export, failed_files being the
\* number of notes whose processing raised and processed_files the number of
\* the others.
C2_CompletedCountsAddUp ==
  \A p \in Procs :
    (HasRow(p) /\ Row(p).status = "completed") =>
      /\ Row(p).total_files = Len(notes[p])
      /\ Row(p).processed_files + Row(p).failed_files = Row(p).total_files
      /\ Row(p).failed_files = CountOf(p, "raised")
      /\ Row(p).processed_files = CountOf(p, "ok")

C2_Witness ==
  \E p \in Procs :
    /\ HasRow(p) /\ Row(p).status = "completed"
    /\ Row(p).failed_files >= 1
    /\ Row(p).processed_files >= 1

\* C3: a job row that holds 'completed' has in its error_log one entry for
\* every failed note, naming the note and the message, and no other entry.
C3_ErrorLogOnCompletedRow ==
  \A p \in Procs :
    (HasRow(p) /\ Row(p).status = "completed") =>
      /\ Len(Row(p).error_log) = CountOf(p, "raised")
      /\ Row(p).error_log = stats[p].errors

\* C4: when the root of the export is absent or malformed the job row becomes
\* 'failed' with the error in its error_log and the run stops: the processor
\* has no notes and zero counters, the row's counters are zero, and the steps
\* of that run write no document, attachment or queue entry.
C4_RootFailureState ==
  \A p \in Procs :
    (pc[p] = "thrown" /\ thrown[p] \in StructuralErrors) =>
      /\ Row(p).status = "failed"
      /\ Row(p).error_log = <<thrown[p]>>
      /\ notes[p] = <<>>
      /\ stats[p] = EmptyStats
      /\ Row(p).total_files = 0
      /\ Row(p).processed_files = 0
      /\ Row(p).failed_files = 0

C4_RootFailureStep ==
  \A p \in Procs :
    (pc'[p] # pc[p] /\ (pc'[p] = "catch" \/ pc[p] = "catch")) =>
      /\ UNCHANGED << documents, attachments, embedding_queue, stats, notes >>
      /\ pc'[p] = "catch" => UNCHANGED migration_progress

C4_RootFailureStops == [](C4_RootFailureState) /\ [][C4_RootFailureStep]_vars

C4_Witness ==
  \E p \in Procs :
    /\ pc[p] = "thrown"
    /\ thrown[p] = "Invalid ENEX format: missing en-export root"
    /\ Row(p).status = "failed"
    /\ \E q \in Procs : q # p /\ pc[q] = "returned" /\ Len(documents) > 0

\* C5: a job row becomes 'failed' only when the top-level export could not be
\* interpreted; a run whose root parsed never makes its job 'failed', also
\* when a checkpoint write or a per-note step raises.
C5_FailedOnlyOnRootError ==
  \A p \in Procs :
    (HasRow(p) /\ Row(p).status = "failed") => thrown[p] \in StructuralErrors

Terminal == {"completed", "failed"}
StatusChanged(m) ==
  /\ migration_progress'[m].exists
  /\ ~migration_progress[m].exists
       \/ migration_progress'[m].status # migration_progress[m].status
\* processor p of job m takes the step from pc value a to pc value b
StepOf(m, a, b) ==
  \E p \in Procs : migrationId[p] = m /\ pc[p] = a /\ pc'[p] = b
UsersOf(m) == {p \in Procs : Constructed(p) /\ migrationId[p] = m}

C6_StatusSteps ==
  \A m \in MigIds :
    /\ StatusChanged(m) =>
         \/ migration_progress'[m].status = "running" /\ StepOf(m, "new", "inited")
         \/ migration_progress'[m].status = "completed" /\ StepOf(m, "complete", "returned")
         \/ migration_progress'[m].status = "failed" /\ StepOf(m, "catch", "thrown")
    /\ (migration_progress[m].exists /\ Cardinality(UsersOf(m)') <= 1) =>
         /\ migration_progress[m].status \in Terminal
              => migration_progress'[m].status = migration_progress[m].status
         /\ migration_progress[m].status = "running"
              => migration_progress'[m].status \in {"running"} \cup Terminal

C7_EmptyExport ==
  \A p \in Procs :
    /\ (pc[p] = "batch") => notes[p] # <<>>
    /\ (pc[p] = "returned" /\ notes[p] = <<>>) =>
         /\ Row(p).status = "completed"
         /\ Row(p).total_files = 0
         /\ Row(p).processed_files = 0
         /\ Row(p).failed_files = 0

C7_Witness ==
  \E p \in Procs :
    pc[p] = "returned" /\ notes[p] = <<>> /\ Row(p).status = "completed"

\* C8: no two documents have the same source_id, a document keeps its id and
\* its source_id for ever, and two ingestions of the same source identity (in
\* one run or in two) get the id of the one document with that source_id.
C8_UniqueSource ==
  /\ \A i \in 1..Len(documents), j \in 1..Len(documents) :
       documents[i].source_id = documents[j].source_id => i = j
  /\ \A a \in UpsertedNotes :
       /\ documents[noteDoc[a[1]][a[2]]].source_id = draft[a[1]][a[2]][1].source_id
       /\ \A b \in UpsertedNotes :
            draft[a[1]][a[2]][1].source_id = draft[b[1]][b[2]][1].source_id
              => noteDoc[a[1]][a[2]] = noteDoc[b[1]][b[2]]

C8_IdentityKept ==
  \A i \in 1..Len(documents) :
    /\ Len(documents') >= i
    /\ documents'[i].source_id = documents[i].source_id

C8_OneDocumentPerSource == [](C8_UniqueSource) /\ [][C8_IdentityKept]_vars

C8_Witness ==
  \E a \in UpsertedNotes, b \in UpsertedNotes :
    /\ a[1] # b[1]
    /\ noteDoc[a[1]][a[2]] = noteDoc[b[1]][b[2]]
    /\ Len(documents) = 1

\* the step is the upsert of note k of p onto an existing document
ReUpsert(p, k) ==
  /\ k <= Len(notes[p])
  /\ notePc[p][k] = "upsert"
  /\ notePc'[p][k] # "upsert"
  /\ noteDoc'[p][k] # NULL
  /\ noteDoc'[p][k] <= Len(documents)

\* C9: the second ingestion of a source identity leaves the document with
\* the content, contexts, project, area and updated timestamp of that
\* ingestion and every other field as it was.
C9_SecondIngestionFields ==
  \A p \in Procs, k \in 1..MaxNotes :
    ReUpsert(p, k) =>
      LET d == draft[p][k][1]
          old == documents[noteDoc'[p][k]]
          new == documents'[noteDoc'[p][k]]
      IN new = [old EXCEPT !.content = d.content,
                           !.gtd_contexts = d.gtd_contexts,
                           !.gtd_project = d.gtd_project,
                           !.gtd_area = d.gtd_area,
                           !.updated_at = d.updated_at]

C9_NewerWriteOverwrites == [][C9_SecondIngestionFields]_vars

\* C10: every document has at most one embedding_queue entry whose
\* processed_at is null.
C10_OneUnprocessedEntry ==
  \A i \in 1..Len(embedding_queue), j \in 1..Len(embedding_queue) :
    (/\ embedding_queue[i].document_id = embedding_queue[j].document_id
     /\ embedding_queue[i].processed_at = NULL
     /\ embedding_queue[j].processed_at = NULL) => i = j

\* ----------------------------------------------------- the embedding queue
\* the queue row an invocation is working on
EntryOf(d) == Item(d).id
Busy(d) == drain[d].pc # "idle"
\* the ids of the rows an invocation selected
SelectedIds(d) == {drain[d].items[k].id : k \in 1..Len(drain[d].items)}

\* C11: a failing embedding attempt on a queue entry (the generator call or
\* the update of the document raised) changes nothing until the catch block
\* runs, and the catch block increases the attempts of that entry by exactly
\* 1, sets last_error to the message of the failure, leaves processed_at
\* null, deletes no entry, changes no other entry and leaves the documents
\* (embedding and needs_embedding included) as they were; the entry is then
\* still among the unprocessed entries a drain selects from.
C11_FailureStep ==
  \A d \in Drainers :
    /\ (drain[d].pc \in {"generate", "update"} /\ drain'[d].pc = "catch") =>
         /\ drain'[d].error # NoText
         /\ UNCHANGED << documents, embedding_queue >>
    /\ (drain[d].pc = "catch" /\ drain'[d] # drain[d]) =>
         LET e == EntryOf(d)
         IN /\ documents' = documents
            /\ Len(embedding_queue') = Len(embedding_queue)
            /\ embedding_queue'[e].attempts = embedding_queue[e].attempts + 1
            /\ embedding_queue'[e].last_error = drain[d].error
            /\ embedding_queue'[e].processed_at = NULL
            /\ \A k \in 1..Len(embedding_queue) :
                 k # e => embedding_queue'[k] = embedding_queue[k]
            /\ e \in Unprocessed(embedding_queue', documents')

C12_MarkedState ==
  \A d \in Drainers :
    drain[d].pc = "mark" =>
      /\ drain[d].error = NoText
      /\ drain[d].embedding = generateEmbedding(EmbeddingInput(Item(d)))
      /\ documents[Item(d).document_id].embedding = drain[d].embedding
      /\ ~documents[Item(d).document_id].needs_embedding

C12_MarkedStep ==
  \A k \in 1..Len(embedding_queue) :
    embedding_queue'[k].processed_at # embedding_queue[k].processed_at =>
      \E d \in Drainers :
        /\ drain[d].pc = "mark"
        /\ EntryOf(d) = k
        /\ documents' = documents

C12_StoredBeforeProcessed == [](C12_MarkedState) /\ [][C12_MarkedStep]_vars

\* one entry is processed, with its vector stored, and one that failed is not
C12_Witness ==
  /\ \E k \in 1..Len(embedding_queue) :
       /\ embedding_queue[k].processed_at # NULL
       /\ documents[embedding_queue[k].document_id].embedding # NULL
       /\ ~documents[embedding_queue[k].document_id].needs_embedding
  /\ \E k \in 1..Len(embedding_queue) :
       /\ embedding_queue[k].attempts > 0
       /\ embedding_queue[k].last_error = StoreError
       /\ embedding_queue[k].processed_at = NULL

\* C13: processEmbeddingQueue(N) selects at most N entries, as many as there
\* are when fewer than N are unprocessed, each one unprocessed when it is
\* selected and none twice; no unprocessed entry left out has a higher
\* priority, or the same priority and an earlier created_at, than a selected
\* one, and the selected ones are worked on in that order; an invocation
\* changes no entry it did not select.
C13_SelectionStep ==
  \A d \in Drainers :
    /\ (~Busy(d) /\ openai /\ drain'[d] # drain[d]) =>
         LET sel == drain'[d].items
             ids == {sel[k].id : k \in 1..Len(sel)}
             open == Unprocessed(embedding_queue, documents)
         IN /\ Busy(d)' <=> open # {}
            /\ Busy(d)' => /\ Len(sel) <= drain'[d].limit
                            /\ Len(sel) = Min(drain'[d].limit, Cardinality(open))
            /\ ids \subseteq open
            /\ Cardinality(ids) = Len(sel)
            /\ \A k \in open \ ids, j \in ids :
                 /\ embedding_queue[k].priority <= embedding_queue[j].priority
                 /\ embedding_queue[k].priority = embedding_queue[j].priority =>
                      embedding_queue[k].created_at >= embedding_queue[j].created_at
            /\ \A a, b \in 1..Len(sel) : a < b =>
                 /\ embedding_queue[sel[a].id].priority >= embedding_queue[sel[b].id].priority
                 /\ embedding_queue[sel[a].id].priority = embedding_queue[sel[b].id].priority =>
                      embedding_queue[sel[a].id].created_at <= embedding_queue[sel[b].id].created_at
    /\ \A k \in 1..Len(embedding_queue) :
         embedding_queue'[k] # embedding_queue[k] =>
           \E w \in Drainers : Busy(w) /\ k \in SelectedIds(w)

C13_FirstNByPriority == [][C13_SelectionStep]_vars

\* an entry inserted first is left out for later ones of higher priority, and
\* one of two entries of the same priority for the one inserted before it
C13_Witness ==
  \E d \in Drainers :
    /\ Busy(d)
    /\ Len(drain[d].items) = drain[d].limit
    /\ \E k \in Unprocessed(embedding_queue, documents) \ SelectedIds(d) :
         \E j \in SelectedIds(d) :
           /\ k < j
           /\ embedding_queue[k].priority < embedding_queue[j].priority
    /\ \E k \in Unprocessed(embedding_queue, documents) \ SelectedIds(d) :
         \E j \in SelectedIds(d) :
           /\ embedding_queue[k].priority = embedding_queue[j].priority
           /\ embedding_queue[k].created_at > embedding_queue[j].created_at

\* C14: with no generator credential an invocation of processEmbeddingQueue
\* returns processed = 0 and failed = 0 at once, and changes no queue entry
\* and no document; no invocation is ever inside its loop.
C14_SkipStep ==
  ~openai =>
    /\ UNCHANGED << documents, embedding_queue >>
    /\ \A d \in Drainers :
         /\ ~Busy(d)'
         /\ drain'[d] # drain[d] =>
              /\ drain'[d].returned = Some(ZeroDrainStats)
              /\ drain'[d].skipped

C14_NoCredentialNoOp == [][C14_SkipStep]_vars

\* the invocation was skipped while entries were waiting
C14_Witness ==
  /\ ~openai
  /\ \E d \in Drainers :
       /\ drain[d].skipped
       /\ drain[d].returned = Some(ZeroDrainStats)
  /\ Cardinality(Unprocessed(embedding_queue, documents)) >= 2

\* ------------------------------------------------------------- the search
\* the call has its results
HasResults == search.pc \in {"record", "done"}
\* the results come from hybrid_search
FromHybridSearch == HasResults /\ search.type = "hybrid" /\ search.embedding # NULL
ResultIds == {search.results[i].id : i \in 1..Len(search.results)}
\* the two scores of a document of the merged candidates, 0 for the set it
\* is not in, and the score the claim gives it
VectorPart(k) ==
  IF k \in search.vectors THEN Cosine(documents[k].embedding, search.embedding)
  ELSE 0
TextPart(k) ==
  IF k \in search.texts THEN ts_rank(documents[k], search.query) ELSE 0
Blend(k) ==
  search.vectorWeight * VectorPart(k) + (10 - search.vectorWeight) * TextPart(k)

\* C15: every document hybrid_search returns is in one of the two candidate
\* sets and carries the combined score vectorWeight * vectorScore +
\* (1 - vectorWeight) * textScore, the score of a set the document is not in
\* counting as 0 (scores in hundredths, the weight in tenths, the combined
\* score in thousandths).
C15_CombinedScore ==
  FromHybridSearch =>
    \A i \in 1..Len(search.results) :
      /\ search.results[i].id \in search.vectors \cup search.texts
      /\ search.results[i].score = Blend(search.results[i].id)

\* text 0.8, vector 0.5, weight 0.6 gives 0.62, next to a document that is a
\* candidate of one set only
C15_Witness ==
  /\ FromHybridSearch
  /\ search.vectorWeight = 6
  /\ \E i \in 1..Len(search.results) :
       /\ TextPart(search.results[i].id) = 80
       /\ VectorPart(search.results[i].id) = 50
       /\ search.results[i].id \in search.vectors \cap search.texts
       /\ search.results[i].score = 620
  /\ \E i \in 1..Len(search.results) :
       search.results[i].id \notin search.vectors \cap search.texts

\* C16: the rows hybrid_search returns are in order of non-increasing
\* combined score, at most `limit` of them, no document twice, and no merged
\* candidate that is left out has a higher combined score than a returned one.
C16_RankedAndCut ==
  FromHybridSearch =>
    /\ Len(search.results) <= search.limit
    /\ \A i, j \in 1..Len(search.results) : i < j =>
         /\ search.results[i].score >= search.results[j].score
         /\ search.results[i].id # search.results[j].id
    /\ \A k \in (search.vectors \cup search.texts) \ ResultIds :
         \A i \in 1..Len(search.results) : Blend(k) <= search.results[i].score

\* two rows of different scores are returned and a third candidate is cut
C16_Witness ==
  /\ FromHybridSearch
  /\ Len(search.results) = 2
  /\ search.limit = 2
  /\ search.results[1].score > search.results[2].score
  /\ \E k \in (search.vectors \cup search.texts) \ ResultIds :
       Blend(k) < search.results[2].score

\* C17: every document a hybrid search returns is active, has one of the
\* contexts of the context filter when one is given, and has the area of the
\* area filter when one is given.
C17_ReturnedMatchFilters ==
  (HasResults /\ search.type = "hybrid") =>
    \A k \in ResultIds :
      /\ documents[k].is_active
      /\ search.contexts # None =>
           \E i \in 1..Len(documents[k].gtd_contexts) :
             documents[k].gtd_contexts[i] \in search.contexts[1]
      /\ search.area # None => documents[k].gtd_area = search.area

\* C18: with no generator configured a hybrid search never goes to the
\* generator and never fails, and its results are results the text search
\* gives for the same query, contexts, area and limit.
C18_HybridWithoutGenerator ==
  (search.type = "hybrid" /\ ~openai) =>
    /\ search.pc \in {"text", "record", "done"}
    /\ search.error = NoText
    /\ HasResults =>
         search.results \in search_documents(documents, search.query,
                              search.contexts, search.area, search.limit)

\* such a search, with an area filter, has returned a document
C18_Witness ==
  /\ search.type = "hybrid"
  /\ ~openai
  /\ search.pc = "done"
  /\ search.area # None
  /\ search.results # <<>>
  /\ search_history # <<>>

\* C19: a hybrid search with a generator configured does not end in an
\* error when the embedding call fails: it returns the lexical ranking.
C19_DegradesToLexical ==
  (search.type = "hybrid" /\ openai) => search.pc # "failed"

\* C20: a search of type vector with no generator configured ends at once in
\* the error 'Vector search requires OPENAI_API_KEY', has no results, and no
\* row of search_history is written for it.
C20_FailedState ==
  (search.type = "vector" /\ ~openai) =>
    /\ search.pc = "failed"
    /\ search.error = VectorKeyError
    /\ search.results = <<>>

C20_HistoryStep ==
  search_history' # search_history =>
    /\ search.pc = "record"
    /\ ~(search.type = "vector" /\ ~openai)
    /\ Len(search_history') = Len(search_history) + 1

C20_VectorOnlyNeedsGenerator == [](C20_FailedState) /\ [][C20_HistoryStep]_vars

\* the search failed over a store that holds an active document with a vector
C20_Witness ==
  /\ search.type = "vector"
  /\ ~openai
  /\ search.pc = "failed"
  /\ search.contexts # None
  /\ search.area # None
  /\ search_history = <<>>
  /\ \E k \in 1..Len(documents) :
       documents[k].is_active /\ documents[k].embedding # NULL

\* ------------------------------------------------- the migration, continued
\* the job ids some processor was constructed with
UsedIds == {migrationId[p] : p \in {q \in Procs : Constructed(q)}}
JobStatuses == {"running", "completed", "failed"}

\* C21: the trigger answers with the job id in the step that starts the run,
\* when the job is 'running' and the run has not ended; from then on the
\* status query for that id answers 200 with a row whose status is running,
\* completed or failed and that carries the three counts and the error log;
\* the query for an id no processor was constructed with answers 404.
C21_QueryState ==
  /\ \A p \in Procs :
       Responded(p) =>
         LET answer == MigrationStatus(migration_progress, migrationId[p])
         IN /\ answer.code = 200
            /\ answer.body.status \in JobStatuses
            /\ answer.body.total_files \in Nat
            /\ answer.body.processed_files \in Nat
            /\ answer.body.failed_files \in Nat
            /\ Len(answer.body.error_log) \in Nat
  /\ \A m \in MigIds \ UsedIds :
       MigrationStatus(migration_progress, m) = NotFound

C21_AnswerStep ==
  \A p \in Procs :
    (~Responded(p) /\ Responded(p)') =>
      /\ pc'[p] \notin {"returned", "thrown"}
      /\ MigrationStatus(migration_progress', migrationId'[p]).code = 200
      /\ MigrationStatus(migration_progress', migrationId'[p]).body.status = "running"

C21_StartedAndFound == [](C21_QueryState) /\ [][C21_AnswerStep]_vars

C21_Witness ==
  \E p \in Procs :
    /\ pc[p] = "batch"
    /\ \E k \in 1..Len(notes[p]) : notePc[p][k] = "upsert"
    /\ MigrationStatus(migration_progress, migrationId[p]).body.status = "running"
    /\ \E m \in MigIds \ UsedIds : MigrationStatus(migration_progress, m) = NotFound

\* the tags of a note that the normalizer classifies as contexts
Classified(tags) == {i \in 1..Len(tags) : IsContextTag(tags[i])}
\* the notes of p that processNote made a Document of
Drafted(p) == {k \in 1..Len(notes[p]) : k <= Len(draft[p]) /\ draft[p][k] # None}

\* C22: the contexts of every Document the normalizer produces, and of every
\* stored document, are not empty; they are the single '@inbox' when no tag
\* of the note is classified as a context, and hold one context per
\* classified tag, with no '@inbox' added, when at least one is.
C22_ContextsNeverEmpty ==
  /\ \A p \in Procs : \A k \in Drafted(p) :
       LET contexts == draft[p][k][1].gtd_contexts
           n == Cardinality(Classified(notes[p][k].tags))
       IN /\ contexts # <<>>
          /\ n = 0 => contexts = <<W_inbox>>
          /\ n > 0 => Len(contexts) = n
  /\ \A i \in 1..Len(documents) : documents[i].gtd_contexts # <<>>

C22_Witness ==
  \E p \in Procs : \E k \in Drafted(p), j \in Drafted(p) :
    /\ pc[p] = "returned"
    /\ notes[p][k] = EmptyNote
    /\ draft[p][k][1].gtd_contexts = <<W_inbox>>
    /\ notes[p][j] = NoteA
    /\ draft[p][j][1].gtd_contexts = <<W_at_computer>>

\* the note carries a created or an updated date that no parser accepts
HasUnparseableDate(note) == note.created = Unparseable \/ note.updated = Unparseable

\* C23: a note whose creation or update date cannot be parsed is not failed
\* because of it: its dates are the current time, it is never counted in
\* failedItems and, when the run has returned, it is counted in
\* processedItems, with and without a guid.
C23_BadDateIsProcessed ==
  \A p \in Procs : \A k \in 1..Len(notes[p]) :
    HasUnparseableDate(notes[p][k]) =>
      /\ notePc[p][k] # "raised"
      /\ k \in Drafted(p) =>
           /\ notes[p][k].created = Unparseable => draft[p][k][1].created_at = now
           /\ notes[p][k].updated = Unparseable => draft[p][k][1].updated_at = now
      /\ pc[p] = "returned" => notePc[p][k] = "ok" /\ stats[p].processed >= 1

\* the batch (0, 1, ...) note k belongs to, and the notes of a batch
BatchIndex(k) == (k - 1) \div batchSize
\* processNote was called for note k of p
Started(p, k) == k <= Len(notePc[p]) /\ notePc[p][k] # "todo"
Finished(p, k) == k <= Len(notePc[p]) /\ notePc[p][k] \in {"ok", "raised"}
\* the step writes the counts of the row of p: a checkpoint
WritesCounts(p) ==
  /\ Row(p).exists
  /\ << Row(p).total_files, Row(p).processed_files, Row(p).failed_files >>'
       # << Row(p).total_files, Row(p).processed_files, Row(p).failed_files >>

\* C24: when a note of a batch has started, every note of every earlier
\* batch has finished and the row holds the checkpoint of those batches;
\* the counts of the row are written only when the current batch has
\* finished, and that step moves on to the next batch or past the loop.
C24_BatchState ==
  \A p \in Procs : \A k \in 1..Len(notes[p]) :
    Started(p, k) =>
      /\ \A j \in 1..Len(notes[p]) : BatchIndex(j) < BatchIndex(k) => Finished(p, j)
      /\ Row(p).processed_files + Row(p).failed_files >= BatchIndex(k) * batchSize
      /\ pc[p] = "batch" => BatchIndex(k) <= BatchIndex(batchStart[p])

C24_CheckpointStep ==
  \A p \in Procs :
    (Constructed(p) /\ WritesCounts(p)) =>
      /\ pc[p] = "batch"
      /\ \A k \in BatchOf(p, batchStart[p]) : Finished(p, k)
      /\ \/ pc'[p] = "batch" /\ batchStart'[p] = batchStart[p] + batchSize
         \/ pc'[p] = "complete" /\ batchStart[p] + batchSize > Len(notes[p])

C24_BatchesInOrder == [](C24_BatchState) /\ [][C24_CheckpointStep]_vars

C24_Witness ==
  \E p \in Procs :
    /\ pc[p] = "batch"
    /\ batchStart[p] = 1 + batchSize
    /\ notePc[p][batchStart[p]] = "upsert"
    /\ notePc[p][1] = "raised"
    /\ Row(p).processed_files + Row(p).failed_files = batchSize

\* the notes among the first n of p that ended in the given state
CountUpTo(p, n, state) ==
  Cardinality({k \in 1..Min(n, Len(notes[p])) : notePc[p][k] = state})

\* C25: the checkpoint written after batch k records total_files = the
\* number of notes and processed_files + failed_files = min(batchSize * k,
\* total_files), the processed and the failed notes of the batches 1..k;
\* between checkpoints the row holds the counts of the last one.
C25_CheckpointWritten ==
  \A p \in Procs :
    (Constructed(p) /\ WritesCounts(p)) =>
      LET k == BatchIndex(batchStart[p]) + 1
          row == migration_progress'[migrationId[p]]
      IN /\ row.total_files = Len(notes[p])
         /\ row.processed_files + row.failed_files = Min(batchSize * k, Len(notes[p]))
         /\ row.processed_files = CountUpTo(p, batchSize * k, "ok")
         /\ row.failed_files = CountUpTo(p, batchSize * k, "raised")

C25_BetweenCheckpoints ==
  \A p \in Procs :
    (HasRow(p) /\ pc[p] = "batch") =>
      /\ Row(p).processed_files + Row(p).failed_files
           = batchSize * BatchIndex(batchStart[p])
      /\ batchStart[p] > 1 => Row(p).total_files = Len(notes[p])

C25_CheckpointCounts == [](C25_BetweenCheckpoints) /\ [][C25_CheckpointWritten]_vars

C25_Witness ==
  \E p \in Procs :
    /\ pc[p] = "batch"
    /\ batchStart[p] = 1 + batchSize
    /\ notePc[p][batchStart[p]] = "ok"
    /\ Row(p).total_files = Len(notes[p])
    /\ Row(p).processed_files = 1
    /\ Row(p).failed_files = batchSize - 1

\* C26: the total_files, processed_files and failed_files of a job row never
\* decrease, whatever step is taken.
C26_CountsStep ==
  \A m \in MigIds :
    migration_progress[m].exists =>
      /\ migration_progress'[m].exists
      /\ migration_progress'[m].total_files >= migration_progress[m].total_files
      /\ migration_progress'[m].processed_files >= migration_progress[m].processed_files
      /\ migration_progress'[m].failed_files >= migration_progress[m].failed_files

C26_CountsNeverDecrease == [][C26_CountsStep]_vars

\* the step in which the first notes of the run of p start processing
FirstNoteStarts(p) ==
  /\ pc[p] \in {"new", "inited"}
  /\ pc'[p] = "batch"

\* C27: when the first note of a run starts processing, the job row exists
\* with status 'running' and total_files, processed_files and failed_files
\* zero, also when the row existed before, and for a run started by the HTTP
\* trigger as for one started by processENEXFile.
C27_RowAtStart ==
  \A p \in Procs :
    FirstNoteStarts(p) =>
      /\ Row(p).exists
      /\ Row(p).status = "running"
      /\ Row(p).total_files = 0
      /\ Row(p).processed_files = 0
      /\ Row(p).failed_files = 0

C27_RowResetBeforeFirstNote == [][C27_RowAtStart]_vars

\* the step is taken by processor p (its position changes)
StepBy(p) == pc'[p] # pc[p]

\* C28: two runs have distinct job ids, and a step of one run leaves the row
\* of every other run as it is.
C28_DistinctIds ==
  \A p \in Procs, q \in Procs :
    (p # q /\ Constructed(p) /\ Constructed(q)) => migrationId[p] # migrationId[q]

C28_OwnRowOnly ==
  \A p \in Procs, q \in Procs :
    (p # q /\ Constructed(q) /\ StepBy(p)) =>
      migration_progress'[migrationId[q]] = migration_progress[migrationId[q]]

C28_JobsApart == [](C28_DistinctIds) /\ [][C28_OwnRowOnly]_vars

\* the empty notes of the export of p
EmptyNotes(p) == {k \in 1..Len(notes[p]) : notes[p][k] = EmptyNote}

\* C29: an empty note record inside a batch is one per-item failure: it is
\* never counted as processed and, when the run has returned, the job is
\* 'completed', failed_files is the number of empty notes, each has its
\* entry in the errors of the run, and the other notes are processed.
C29_EmptyNoteFails ==
  \A p \in Procs :
    EmptyNotes(p) # {} =>
      /\ \A k \in EmptyNotes(p) : notePc[p][k] # "ok"
      /\ pc[p] = "returned" =>
           /\ Row(p).status = "completed"
           /\ Row(p).failed_files = Cardinality(EmptyNotes(p))
           /\ Len(stats[p].errors) = Cardinality(EmptyNotes(p))
           /\ Row(p).processed_files = Len(notes[p]) - Cardinality(EmptyNotes(p))

\* the draft of an upserted note, and the upserted notes of a source identity
DraftOf(a) == draft[a[1]][a[2]][1]
WritersOf(sid) == {b \in UpsertedNotes : DraftOf(b).source_id = sid}
\* the document has the mutable fields of this draft
HasFieldsOf(doc, d) ==
  /\ doc.content = d.content
  /\ doc.gtd_contexts = d.gtd_contexts
  /\ doc.gtd_project = d.gtd_project
  /\ doc.gtd_area = d.gtd_area
  /\ doc.updated_at = d.updated_at

\* C30: when two or more notes of one source identity have been upserted, in
\* one batch or by two runs, exactly one document has that source_id, its
\* content, contexts, project, area and updated timestamp are those of one
\* of these notes, and none of them is counted as failed.
C30_LastWriterWins ==
  \A a \in UpsertedNotes :
    LET sid == DraftOf(a).source_id
    IN Cardinality(WritersOf(sid)) >= 2 =>
         /\ Cardinality(DocsWithSource(documents, sid)) = 1
         /\ \E b \in WritersOf(sid) :
              \A i \in DocsWithSource(documents, sid) :
                HasFieldsOf(documents[i], DraftOf(b))
         /\ \A b \in WritersOf(sid) : notePc[b[1]][b[2]] # "raised"

\* C31: the identity of a note is its guid if it has one, else its
\* source-guid, else a hash of its title and its creation date; the same
\* note parsed in two runs gets the same identity, also when it carries no
\* creation date.
C31_SameIdentityOnReparse ==
  /\ \A p \in Procs : \A k \in Drafted(p) :
       LET note == notes[p][k]
           sid == draft[p][k][1].source_id
       IN /\ note.guid # NULL => sid = <<"guid", note.guid>>
          /\ (note.guid = NULL /\ note.sourceGuid # NULL)
               => sid = <<"guid", note.sourceGuid>>
          /\ (note.guid = NULL /\ note.sourceGuid = NULL)
               => sid[1] = "md5" /\ sid[2] = note.title
  /\ \A p \in Procs, q \in Procs : \A k \in Drafted(p), j \in Drafted(q) :
       notes[p][k] = notes[q][j]
         => draft[p][k][1].source_id = draft[q][j][1].source_id

\* the resources of the notes of p, and the attachments the store holds
ResourcesOf(p) == LET n == notes[p] IN
  Cardinality({a \in (1..Len(n)) \X (1..2) : a[2] <= n[a[1]].resources})

\* C32: a failure while a resource of a note is processed (the payload, the
\* recognition data or the insert of the attachment) never fails the note:
\* the step leaves the counts and the job row as they were and the note goes
\* on with its next resource or with the enqueue; no note is counted failed,
\* the error list stays empty, and when the run has returned every note is
\* counted processed and has a queue entry, and every resource that did not
\* fail has an attachment.
C32_FailureStep ==
  \A p \in Procs : \A k \in 1..Len(notes[p]) :
    (faults' # faults /\ notePc[p][k] = "resources" /\ resLeft'[p][k] # resLeft[p][k])
      => /\ stats' = stats
         /\ migration_progress' = migration_progress
         /\ embedding_queue' = embedding_queue
         /\ resLeft'[p][k] = resLeft[p][k] - 1
         /\ notePc'[p][k] = IF resLeft'[p][k] > 0 THEN "resources" ELSE "enqueue"

C32_NoteState ==
  \A p \in Procs :
    /\ stats[p].failed = 0 /\ stats[p].errors = <<>>
    /\ \A k \in 1..Len(notes[p]) : notePc[p][k] # "raised"
    /\ pc[p] = "returned" =>
         /\ stats[p].processed = Len(notes[p])
         /\ Row(p).processed_files = Len(notes[p])
         /\ Row(p).failed_files = 0
         /\ Row(p).status = "completed"
         /\ \A k \in 1..Len(notes[p]) :
              \E i \in 1..Len(embedding_queue) :
                embedding_queue[i].document_id = noteDoc[p][k]
         /\ Len(attachments) >= ResourcesOf(p) - faults
         /\ Len(attachments) <= ResourcesOf(p)

C32_ResourceFailureNotFatal == [](C32_NoteState) /\ [][C32_FailureStep]_vars

C32_Witness ==
  /\ pc["p1"] = "returned"
  /\ faults > 0
  /\ \E k \in 1..Len(notes["p1"]) : notes["p1"][k].resources = 2
  /\ Len(attachments) = ResourcesOf("p1") - 1
  /\ stats["p1"].processed = Len(notes["p1"])

\* the positions of the tags that name a project: 'project' is in the tag in
\* any case (a '<Word> Project' tag is such a tag), or the tag starts 'p:'
NamesProject(tags) ==
  {i \in 1..Len(tags) :
     Includes(toLowerCase(tags[i]), W_project) \/ IsPrefix(<<"p", ":">>, tags[i])}

\* C33: a Document has no project when no tag of the note names one;
\* otherwise it has one project, taken from the first tag that names one,
\* trimmed, and with the label 'project' or the prefix 'p:' removed.
C33_ProjectLabelRemoved ==
  \A p \in Procs : \A k \in Drafted(p) :
    LET tags == notes[p][k].tags
        project == draft[p][k][1].gtd_project
        named == NamesProject(tags)
    IN /\ named = {} => project = None
       /\ named # {} =>
            /\ Len(project) = 1
            /\ project[1] = trim(project[1])
            /\ Includes(tags[CHOOSE i \in named : \A j \in named : i <= j],
                        project[1])
            /\ ~Includes(toLowerCase(project[1]), W_project)
            /\ ~IsPrefix(<<"p", ":">>, project[1])

\* C34: in one invocation of processEmbeddingQueue every selected entry is
\* attempted once, in turn, whatever happened to the entries before it: while
\* the invocation works on item i it has counted i - 1 entries, and it ends
\* only after its last item, returning counts with processed + failed = the
\* number of entries it selected.
C34_LoopState ==
  \A d \in Drainers :
    Busy(d) =>
      /\ drain[d].i \in 1..Len(drain[d].items)
      /\ drain[d].stats.processed + drain[d].stats.failed = drain[d].i - 1
      /\ \A j, k \in 1..Len(drain[d].items) :
           drain[d].items[j].id = drain[d].items[k].id => j = k

C34_EndStep ==
  \A d \in Drainers :
    (Busy(d) /\ ~Busy(d)') =>
      /\ drain[d].i = Len(drain[d].items)
      /\ drain'[d].returned # None
      /\ drain'[d].returned[1].processed + drain'[d].returned[1].failed
           = Len(drain[d].items)

C34_EveryEntryAttempted == [](C34_LoopState) /\ [][C34_EndStep]_vars

\* the vector the generator gives for a stored document
VectorOf(doc) == generateEmbedding(<<doc.title, "\n\n", doc.content>>)
\* what a single successful processing leaves of an entry and its document
ProcessedOnce(k) ==
  LET doc == documents[embedding_queue[k].document_id]
  IN /\ embedding_queue[k].processed_at # NULL
     /\ embedding_queue[k].attempts = 0
     /\ embedding_queue[k].last_error = NoText
     /\ doc.embedding = VectorOf(doc)
     /\ ~doc.needs_embedding

\* C35: two invocations of processEmbeddingQueue that overlap may select the
\* same unprocessed entry and both call the generator for it; when both
\* succeed, every entry that is processed, by one of them or by both, is as
\* one successful processing leaves it (processed, no attempt counted, its
\* document holding the vector of its text with needs_embedding false), and
\* the step of the invocation that comes second changes neither the vector
\* nor the flag nor the entry.
C35_ProcessedState ==
  \A k \in 1..Len(embedding_queue) :
    embedding_queue[k].processed_at # NULL => ProcessedOnce(k)

C35_SecondStep ==
  \A d \in Drainers :
    (/\ drain[d].pc \in {"update", "mark"}
     /\ drain'[d] # drain[d]
     /\ embedding_queue[EntryOf(d)].processed_at # NULL)
      => /\ embedding_queue' = embedding_queue
         /\ Len(documents') = Len(documents)
         /\ \A i \in 1..Len(documents) :
              /\ documents'[i].embedding = documents[i].embedding
              /\ documents'[i].needs_embedding = documents[i].needs_embedding

C35_OverlapIsBenign == [](C35_ProcessedState) /\ [][C35_SecondStep]_vars

\* both invocations have returned having processed the one entry of the queue
C35_Witness ==
  /\ drain["d1"].returned = Some([processed |-> 1, failed |-> 0])
  /\ drain["d2"].returned = Some([processed |-> 1, failed |-> 0])
  /\ Len(embedding_queue) = 1
  /\ ProcessedOnce(1)

\* C36: in every state a document whose needs_embedding is false has an
\* embedding, and a queue entry whose processed_at is set refers to a
\* document that has an embedding and whose needs_embedding is false.
C36_FlagMeansVector ==
  /\ \A i \in 1..Len(documents) :
       ~documents[i].needs_embedding => documents[i].embedding # NULL
  /\ \A k \in 1..Len(embedding_queue) :
       embedding_queue[k].processed_at # NULL =>
         /\ embedding_queue[k].document_id \in 1..Len(documents)
         /\ documents[embedding_queue[k].document_id].embedding # NULL
         /\ ~documents[embedding_queue[k].document_id].needs_embedding

\* one entry is processed, another failed on a document that still needs its
\* vector
C36_Witness ==
  \E k \in 1..Len(embedding_queue), j \in 1..Len(embedding_queue) :
    /\ embedding_queue[k].processed_at # NULL
    /\ ~documents[embedding_queue[k].document_id].needs_embedding
    /\ embedding_queue[j].processed_at = NULL
    /\ embedding_queue[j].attempts = 1
    /\ documents[embedding_queue[j].document_id].needs_embedding
    /\ documents[embedding_queue[j].document_id].embedding = NULL

\* C37: once a queue entry has processed_at set, no step changes its
\* attempts or its last_error, however the invocations interleave.
C37_ProcessedStep ==
  \A k \in 1..Len(embedding_queue) :
    embedding_queue[k].processed_at # NULL =>
      /\ embedding_queue'[k].attempts = embedding_queue[k].attempts
      /\ embedding_queue'[k].last_error = embedding_queue[k].last_error

C37_ProcessedEntryFrozen == [][C37_ProcessedStep]_vars

\* the generator takes the text of the document of entry k
Embeddable(k) ==
  /\ k \in 1..Len(embedding_queue)
  /\ EmbeddingInput(QueueItem(embedding_queue, documents, k)) \notin RejectedTexts

\* C38: when processEmbeddingQueue(N) is called again and again, every queue
\* entry whose text the generator takes is processed in the end, also when
\* entries that sort before it fail at every attempt.
C38_EmbeddableEntryProcessed ==
  \A k \in 1..MaxQueue :
    [](Embeddable(k) =>
         <>(k \in 1..Len(embedding_queue) /\ embedding_queue[k].processed_at # NULL))

\* the attachments of document i
AttachmentsOf(i) ==
  Cardinality({a \in 1..Len(attachments) : attachments[a].document_id = i})
\* the notes that were imported into document i, as <<processor, index>>
ImportsOf(i) == {a \in UpsertedNotes : noteDoc[a[1]][a[2]] = i /\ notePc[a[1]][a[2]] = "ok"}
\* no run is between its first note and its return
NoRunInProgress ==
  \A p \in Procs : pc[p] \in {"absent", "new", "inited", "returned"}

\* C39: when no run is in progress, a document has as many attachments as
\* the note of its latest import has resources; checked for the documents
\* all of whose imports carried the same number of resources, so that the
\* latest import is any of them.
C39_AttachmentsOfLatestImport ==
  NoRunInProgress =>
    \A i \in 1..Len(documents) :
      \A a \in ImportsOf(i) :
        (\A b \in ImportsOf(i) :
           notes[b[1]][b[2]].resources = notes[a[1]][a[2]].resources)
          => AttachmentsOf(i) = notes[a[1]][a[2]].resources

\* the outcome processNote reached for a note: counted processed, or failed
Settled == {"ok", "raised"}

\* C40: every note of an export that parsed is attempted once in its run: a
\* note that is counted stays counted as it was, the counters are the numbers
\* of notes counted processed and counted failed (so no note is in both), and
\* a run that returned has counted every note; the step that counts a note
\* processed adds 1 for one note, and in the state it leads to the store
\* holds a document with the source identity of that note and an
\* embedding-queue entry for that document.
C40_CountedState ==
  \A p \in Procs :
    RootParsed(p) =>
      /\ stats[p].processed = CountOf(p, "ok")
      /\ stats[p].failed = CountOf(p, "raised")
      /\ stats[p].processed + stats[p].failed <= Len(notes[p])
      /\ pc[p] = "returned" => \A k \in 1..Len(notes[p]) : notePc[p][k] \in Settled

C40_CountingStep ==
  \A p \in Procs :
    /\ \A k \in 1..Len(notes[p]) :
         (RootParsed(p) /\ notePc[p][k] \in Settled) => notePc'[p][k] = notePc[p][k]
    /\ stats'[p].processed # stats[p].processed =>
         /\ stats'[p].processed = stats[p].processed + 1
         /\ stats'[p].failed = stats[p].failed
         /\ \E k \in 1..Len(notes[p]) :
              /\ notePc[p][k] \notin Settled /\ notePc'[p][k] = "ok"
              /\ \A j \in 1..Len(notes[p]) : j # k => notePc'[p][j] = notePc[p][j]
              /\ noteDoc[p][k] \in 1..Len(documents')
              /\ documents'[noteDoc[p][k]].source_id = draft[p][k][1].source_id
              /\ \E i \in 1..Len(embedding_queue') :
                   embedding_queue'[i].document_id = noteDoc[p][k]

C40_CountedOnceWithDocument == [](C40_CountedState) /\ [][C40_CountingStep]_vars

\* a run returned with one note counted processed and one counted failed
C40_Witness ==
  \E p \in Procs :
    /\ pc[p] = "returned"
    /\ stats[p].processed >= 1 /\ stats[p].failed >= 1
    /\ \E k \in 1..Len(notes[p]) :
         /\ notePc[p][k] = "ok"
         /\ \E i \in 1..Len(embedding_queue) :
              embedding_queue[i].document_id = noteDoc[p][k]
====
